---- MODULE Spec2Model ----
(***************************************************************************)
(* The subgraph mappings of onchain-data-system: the three event handlers  *)
(* (handleDataWritten, handleTransferWithMessage, handleMemoizedSwap) that *)
(* project chain logs into entities, and the entity tables they save to.   *)
(***************************************************************************)
EXTENDS Integers, Sequences, FiniteSets, TLC

\* ------------------------------------------------------------------ bounds

\* Transactions of the modelled chain; transaction k has hash <<k>>.
NumTx == 2
\* Logs of one transaction are at logIndex 0..MaxLogIndex.
MaxLogIndex == 1
\* Logs delivered to the handlers in one behaviour (re-deliveries included).
MaxDeliveries == 2

\* ------------------------------------------------------------- the chain

\* A transaction hash is a byte sequence (one byte here, 32 on chain).
TxHashes == {<<k>> : k \in 1..NumTx}

LogIndexes == 0..MaxLogIndex

\* Without a reorg a transaction is in one block: transaction k is in block
\* k, whose timestamp is NumTx + k (so block numbers and block timestamps
\* never coincide).
BlockOf(hash) == [number |-> hash[1], timestamp |-> NumTx + hash[1]]

\* The decoded `timestamp` parameter of an event in a block with timestamp
\* ts: the contracts emit block.timestamp, but to a handler the parameter is
\* event data (createDataWrittenEvent passes any value), so it is the block's
\* own timestamp or an earlier one.
ParamTimestamps(ts) == {ts, ts - 1}

Messages == {"hello", "bye"}

\* event: DataWritten(eventId, from, message, timestamp) with its context.
DataWrittenEvents ==
  UNION {
    { [ transaction |-> [hash |-> h],
        logIndex    |-> i,
        block       |-> BlockOf(h),
        params      |-> [eventId |-> 0, from |-> "0xAAA", message |-> "hello",
                         timestamp |-> t] ]
      : i \in LogIndexes, t \in ParamTimestamps(BlockOf(h).timestamp) }
    : h \in TxHashes }

\* event: TransferExecuted(transferId, from, to, amount, message, timestamp).
TransferExecutedEvents ==
  UNION {
    { [ transaction |-> [hash |-> h],
        logIndex    |-> i,
        block       |-> BlockOf(h),
        params      |-> [transferId |-> 0, from |-> "0xAAA", to |-> "0xBBB",
                         amount |-> 1, message |-> "hello", timestamp |-> t] ]
      : i \in LogIndexes, t \in ParamTimestamps(BlockOf(h).timestamp) }
    : h \in TxHashes }

\* event: MemoizedSwap(from, recipient, message, amountIn, amountOut); it has
\* no timestamp parameter.
MemoizedSwapEvents ==
  { [ transaction |-> [hash |-> h],
      logIndex    |-> i,
      block       |-> BlockOf(h),
      params      |-> [from |-> "0xAAA", recipient |-> "0xBBB", message |-> m,
                       amountIn |-> 1, amountOut |-> 2] ]
    : h \in TxHashes, i \in LogIndexes, m \in Messages }

\* ------------------------------------------------------------- graph-ts

\* Bytes.concatI32(i): the bytes followed by the four little-endian bytes of
\* the i32 i (BigInt.toI32 aborts the handler unless 0 <= i < 2^31, which
\* every log index is).
concatI32(bytes, i) ==
  bytes \o << i % 256, (i \div 256) % 256, (i \div 65536) % 256,
              (i \div 16777216) % 256 >>

\* Entity.save() (graph-ts store.set): the row is written under its id,
\* replacing the row that has this id, if any.
save(table, entity) == {r \in table : r.id # entity.id} \cup {entity}

\* get(id): the rows of a table under an id (empty: not found).
get(table, id) == {r \in table : r.id = id}

\* ------------------------------------------------------------- handlers

\* Mutant: the entity is keyed by the contract's eventId parameter (event
\* content) instead of the log's place in the chain.
DataWrittenEntity_eventIdAsId(event) ==
  [ id              |-> concatI32(<<>>, event.params.eventId),
    eventId         |-> event.params.eventId,
    from            |-> event.params.from,
    message         |-> event.params.message,
    timestamp       |-> event.block.timestamp,
    blockNumber     |-> event.block.number,
    transactionHash |-> event.transaction.hash ]

\* The entity handleDataWritten builds for an event.
DataWrittenEntity(event) ==
  [ id              |-> concatI32(event.transaction.hash, event.logIndex),
    eventId         |-> event.params.eventId,
    from            |-> event.params.from,
    message         |-> event.params.message,
    timestamp       |-> event.block.timestamp,
    blockNumber     |-> event.block.number,
    transactionHash |-> event.transaction.hash ]

\* Mutant: the id's index is the number of entities stored so far instead of
\* the log index.
handleDataWritten_countId(table, event) ==
  save(table, [ DataWrittenEntity(event) EXCEPT
                  !.id = concatI32(event.transaction.hash,
                                   Cardinality(table)) ])

handleDataWritten(table, event) == save(table, DataWrittenEntity(event))

\* Mutant: the id is the transaction hash alone.
DataWrittenEntity_part000_hashId(event) ==
  [ id              |-> event.transaction.hash,
    eventId         |-> event.params.eventId,
    from            |-> event.params.from,
    message         |-> event.params.message,
    timestamp       |-> event.params.timestamp,
    blockNumber     |-> event.block.number,
    transactionHash |-> event.transaction.hash ]

\* The copy of data-storage.ts that reads the timestamp from the event's
\* parameters.
DataWrittenEntity_part000(event) ==
  [ id              |-> concatI32(event.transaction.hash, event.logIndex),
    eventId         |-> event.params.eventId,
    from            |-> event.params.from,
    message         |-> event.params.message,
    timestamp       |-> event.params.timestamp,
    blockNumber     |-> event.block.number,
    transactionHash |-> event.transaction.hash ]

handleDataWritten_part000(table, event) ==
  save(table, DataWrittenEntity_part000(event))

\* Mutant: the id is the transaction hash alone, as handleMemoizedSwap's is.
TransferWithMessageEntity_hashId(event) ==
  [ id              |-> event.transaction.hash,
    transferId      |-> event.params.transferId,
    from            |-> event.params.from,
    to              |-> event.params.to,
    amount          |-> event.params.amount,
    message         |-> event.params.message,
    timestamp       |-> event.params.timestamp,
    blockNumber     |-> event.block.number,
    transactionHash |-> event.transaction.hash ]

TransferWithMessageEntity(event) ==
  [ id              |-> concatI32(event.transaction.hash, event.logIndex),
    transferId      |-> event.params.transferId,
    from            |-> event.params.from,
    to              |-> event.params.to,
    amount          |-> event.params.amount,
    message         |-> event.params.message,
    timestamp       |-> event.params.timestamp,
    blockNumber     |-> event.block.number,
    transactionHash |-> event.transaction.hash ]

handleTransferWithMessage(table, event) ==
  save(table, TransferWithMessageEntity(event))

\* Mutant: the id is the hash with the log index, as the other handlers' is.
MemoizedSwapEntity_logId(event) ==
  [ id              |-> concatI32(event.transaction.hash, event.logIndex),
    from            |-> event.params.from,
    recipient       |-> event.params.recipient,
    message         |-> event.params.message,
    amountIn        |-> event.params.amountIn,
    amountOut       |-> event.params.amountOut,
    timestamp       |-> event.block.timestamp,
    blockNumber     |-> event.block.number,
    transactionHash |-> event.transaction.hash ]

MemoizedSwapEntity(event) ==
  [ id              |-> event.transaction.hash,
    from            |-> event.params.from,
    recipient       |-> event.params.recipient,
    message         |-> event.params.message,
    amountIn        |-> event.params.amountIn,
    amountOut       |-> event.params.amountOut,
    timestamp       |-> event.block.timestamp,
    blockNumber     |-> event.block.number,
    transactionHash |-> event.transaction.hash ]

handleMemoizedSwap(table, event) == save(table, MemoizedSwapEntity(event))

\* ---------------------------------------------------------------- state

VARIABLES
  dataWrittenEvents,         \* table of DataWrittenEvent entities
  transferWithMessageEvents, \* table of TransferWithMessageEvent entities
  memoizedSwapEvents,        \* table of MemoizedSwapEvent entities
  log,                       \* the deliveries made so far, in order: the
                             \* handler called and the event it was given
  invocation,                \* the handler invocation in progress or ended
                             \* last: its store writes and how it ended
  dataStoredEvents,          \* table of the entities fetchDataEvents reads
  query,                     \* the calls of fetchDataEvents and
                             \* fetchFilteredDataEvents made, with results
  dataList,                  \* state of the DataList component
  subscription,              \* a GraphQLSubscription object, its socket
                             \* and the server end of the socket
  dataStorage,               \* the DataStorage contract and its event log
  transferContract,          \* the TransferWithMessage contract, its event
                             \* log and the calls in progress
  form,                      \* a submit form of the frontend (LogForm,
                             \* TransferForm, ContractTransferForm, TokenForm
                             \* or SwapFormV3) and its handleSubmit runs
  walletConnect              \* the WalletConnect component and the wallet

storeVars == <<dataWrittenEvents, transferWithMessageEvents,
               memoizedSwapEvents, log>>

\* The state of the query clients, which no handler touches.
clientVars == <<dataStoredEvents, query, dataList, subscription>>

\* The state of the contracts, which neither a handler nor a query client
\* touches.
contractVars == <<dataStorage, transferContract>>

\* The state of the frontend's forms and wallet button.
formVars == <<form, walletConnect>>

otherVars == <<contractVars, formVars>>

vars == <<dataWrittenEvents, transferWithMessageEvents, memoizedSwapEvents,
          log, invocation, dataStoredEvents, query, dataList, subscription,
          dataStorage, transferContract, form, walletConnect>>

\* No handler has been invoked.  Of an invocation, `writes` is the number of
\* calls of save it made and `result` how it ended: "ok" when the handler
\* returned, "aborted" when a save failed and the failure ended the handler.
NoInvocation == [handler |-> "none", writes |-> 0, result |-> "none"]

\* No query has been made.
NoQuery == <<>>

\* useState initial values of DataList: data [], loading true, error null
\* (the empty sequence; an error message m is <<m>>), filter 'all'.
\* `fetching` says that a call of fetchData awaits its response, `outcome`
\* how each call of fetchData that has ended ended, oldest first.
DataListMounted ==
  [ data |-> <<>>, loading |-> TRUE, error |-> <<>>, filter |-> "all",
    fetching |-> FALSE, outcome |-> <<>> ]

\* A GraphQLSubscription after construction (ws null, subscriptionId 0, no
\* callbacks), with its surroundings: `sent` is what ws.send has put on the
\* socket, `inbox` the messages of the server on their way to onmessage,
\* `read` how many of `sent` the server has read, `started` the ids the
\* server has a subscription running for, `commits` the number of entities
\* the store has committed (entity c is the c-th), `called` what the
\* callbacks were called with, `subscribedAt[n]` the value of `commits` when
\* subscribe was called the n-th time, `cancelled` the ids whose subscriber
\* has cancelled.
NewSubscription ==
  [ ws |-> "null", subscriptionId |-> 0, subscriptionCallbacks |-> {},
    sent |-> <<>>, inbox |-> <<>>, read |-> 0, started |-> {},
    commits |-> 0, called |-> <<>>, subscribedAt |-> <<>>,
    cancelled |-> {} ]

\* DataStorage after deployment: eventCounter is 0.  `events` is the log of
\* the DataWritten events the contract has emitted, oldest first, and
\* `timestamp` the block.timestamp of the latest call.
NewDataStorage == [eventCounter |-> 0, events |-> <<>>, timestamp |-> 0]

\* The calls of transferWithMessage made in a behaviour.
MaxCalls == 3

\* address(0), an externally owned account, and a contract account, whose
\* code runs when it is paid.
ZeroAddress == "0x0"

Accounts == {"alice", "wallet"}

Addresses == {ZeroAddress} \cup Accounts

\* The keys of the transfers mapping that a behaviour can reach.
TransferIds == 0..MaxCalls

\* The value of a mapping at a key never written: every field zero.
ZeroTransfer ==
  [ id |-> 0, from |-> ZeroAddress, to |-> ZeroAddress, amount |-> 0,
    message |-> "", timestamp |-> 0 ]

\* The storage of TransferWithMessage after deployment, with what a revert
\* undoes along with it: `events` is the log of TransferExecuted events and
\* `payments` the payments that the contract made and that succeeded,
\* oldest first.
NewTransfers ==
  [ transferCounter |-> 0,
    transfers |-> [id \in TransferIds |-> ZeroTransfer],
    senderTransfers |-> [a \in Addresses |-> <<>>],
    receiverTransfers |-> [a \in Addresses |-> <<>>],
    events |-> <<>>, payments |-> <<>> ]

\* TransferWithMessage after deployment.  `chain` is the storage and logs,
\* `calls` the calls of transferWithMessage in progress, outermost first,
\* each waiting at its payment call, `started` the number of calls made,
\* `timestamp` the block.timestamp of the transaction, and `last` what the
\* latest step was.
NewTransferContract ==
  [ chain |-> NewTransfers, calls |-> <<>>, started |-> 0, timestamp |-> 0,
    last |-> [op |-> "deploy"] ]

ContractsDeployed ==
  /\ dataStorage = NewDataStorage
  /\ transferContract = NewTransferContract

\* The submit forms, by the name of their component, and the text inputs
\* each has.
FormKinds ==
  {"LogForm", "TransferForm", "ContractTransferForm", "TokenForm",
   "SwapFormV3"}

FieldsOf(kind) ==
  CASE kind = "LogForm" -> {"message"}
    [] kind = "TransferForm" -> {"to", "amount", "message"}
    [] kind = "ContractTransferForm" -> {"to", "amount", "message"}
    [] kind = "TokenForm" -> {"to", "amount"}
    [] kind = "SwapFormV3" -> {"ethAmount", "recipient", "message"}

\* A form after its first render, in a browser where window.ethereum is
\* `ethereum` (a wallet is installed or not): every useState at its initial
\* value, '' for every input, txHash, errorMessage and quote, 'idle' for
\* txStatus, false for isQuoting.  txHash is <<>> for '' and <<n>> for the
\* hash of the n-th transaction sent.  Of SwapFormV3's effect, `debounce`
\* is the pending timeout, <<>> for none and <<a>> for one whose getQuote
\* was created with ethAmount a (the effect runs after the first render),
\* and `requests` the ethAmounts of the quote requests that await their
\* response.  `runs` holds the calls of handleSubmit that have passed
\* validation and not ended, `started` counts them, `sent` the transactions
\* sent and `quoted` the quote requests made; `last` is the latest step.
Mounted(kind, ethereum) ==
  [ kind |-> kind, ethereum |-> ethereum,
    fields |-> [f \in FieldsOf(kind) |-> ""],
    txStatus |-> "idle", txHash |-> <<>>, errorMessage |-> "",
    quote |-> "", isQuoting |-> FALSE,
    debounce |-> IF kind = "SwapFormV3" THEN <<"">> ELSE <<>>,
    requests |-> <<>>,
    runs |-> <<>>, started |-> 0, sent |-> 0, quoted |-> 0,
    last |-> [op |-> "mount"] ]

\* userAddress null.
NoAddress == "null"

\* WalletConnect after its first render and its effect, in a browser with a
\* wallet that has (`authorised`) or has not given this site access to an
\* account: userAddress null, and the effect has subscribed to chainChanged
\* and called updateState.  `updates` holds the calls of updateState in
\* progress, each at the request it awaits; `connecting` says that a call of
\* connectWallet awaits eth_requestAccounts; `calls` counts the calls of
\* updateState; `disconnected` says that handleDisconnect has run and
\* connectWallet has not been invoked since.
WalletMounted(authorised) ==
  [ userAddress |-> NoAddress, errorMessage |-> "null",
    isAccountModalOpen |-> FALSE,
    authorised |-> authorised,
    updates |-> <<[awaits |-> "eth_accounts"]>>, connecting |-> FALSE,
    calls |-> 1, disconnected |-> FALSE ]

FrontendMounted ==
  /\ form = Mounted("LogForm", TRUE)
  /\ walletConnect = WalletMounted(FALSE)

EmptyStore ==
  /\ dataWrittenEvents = {}
  /\ transferWithMessageEvents = {}
  /\ memoizedSwapEvents = {}
  /\ log = <<>>

ClientsIdle ==
  /\ dataStoredEvents = {}
  /\ query = NoQuery
  /\ dataList = DataListMounted
  /\ subscription = NewSubscription

Init ==
  /\ EmptyStore
  /\ invocation = NoInvocation
  /\ ContractsDeployed
  /\ FrontendMounted
  /\ ClientsIdle

\* The graph node calls `handler` with `event`.
Deliver(handler, event) ==
  /\ Len(log) < MaxDeliveries
  /\ log' = Append(log, [handler |-> handler, event |-> event])
  /\ UNCHANGED invocation
  /\ UNCHANGED clientVars
  /\ UNCHANGED otherVars

DeliverDataWritten(event) ==
  /\ Deliver("handleDataWritten", event)
  /\ dataWrittenEvents' = handleDataWritten(dataWrittenEvents, event)
  /\ UNCHANGED <<transferWithMessageEvents, memoizedSwapEvents>>

DeliverDataWritten_part000(event) ==
  /\ Deliver("handleDataWritten_part000", event)
  /\ dataWrittenEvents' = handleDataWritten_part000(dataWrittenEvents, event)
  /\ UNCHANGED <<transferWithMessageEvents, memoizedSwapEvents>>

DeliverTransferExecuted(event) ==
  /\ Deliver("handleTransferWithMessage", event)
  /\ transferWithMessageEvents' =
       handleTransferWithMessage(transferWithMessageEvents, event)
  /\ UNCHANGED <<dataWrittenEvents, memoizedSwapEvents>>

DeliverMemoizedSwap(event) ==
  /\ Deliver("handleMemoizedSwap", event)
  /\ memoizedSwapEvents' = handleMemoizedSwap(memoizedSwapEvents, event)
  /\ UNCHANGED <<dataWrittenEvents, transferWithMessageEvents>>

Next ==
  \/ \E event \in DataWrittenEvents : DeliverDataWritten(event)
  \/ \E event \in DataWrittenEvents : DeliverDataWritten_part000(event)
  \/ \E event \in TransferExecutedEvents : DeliverTransferExecuted(event)
  \/ \E event \in MemoizedSwapEvents : DeliverMemoizedSwap(event)

Spec == Init /\ [][Next]_vars

\* ------------------------------------------------ reading the deliveries

DataHandlers == {"handleDataWritten", "handleDataWritten_part000"}

Handlers ==
  DataHandlers \cup {"handleTransferWithMessage", "handleMemoizedSwap"}

\* The entity type a handler writes.
EntityType(handler) ==
  CASE handler \in DataHandlers -> "DataWrittenEvent"
    [] handler = "handleTransferWithMessage" -> "TransferWithMessageEvent"
    [] handler = "handleMemoizedSwap" -> "MemoizedSwapEvent"

EntityTypes == {EntityType(h) : h \in Handlers}

\* The table of an entity type, as it is now.
TableOfType(type) ==
  CASE type = "DataWrittenEvent" -> dataWrittenEvents
    [] type = "TransferWithMessageEvent" -> transferWithMessageEvents
    [] type = "MemoizedSwapEvent" -> memoizedSwapEvents

\* The table a handler writes, as it is now.
Table(handler) == TableOfType(EntityType(handler))

\* The table a handler's table becomes when it is called with `event`.
Handle(handler, table, event) ==
  CASE handler = "handleDataWritten" -> handleDataWritten(table, event)
    [] handler = "handleDataWritten_part000" ->
         handleDataWritten_part000(table, event)
    [] handler = "handleTransferWithMessage" ->
         handleTransferWithMessage(table, event)
    [] handler = "handleMemoizedSwap" -> handleMemoizedSwap(table, event)

\* The entity a handler builds for `event`.
Entity(handler, event) ==
  CASE handler = "handleDataWritten" -> DataWrittenEntity(event)
    [] handler = "handleDataWritten_part000" -> DataWrittenEntity_part000(event)
    [] handler = "handleTransferWithMessage" -> TransferWithMessageEntity(event)
    [] handler = "handleMemoizedSwap" -> MemoizedSwapEntity(event)

EventsOf(handler) ==
  CASE handler \in DataHandlers -> DataWrittenEvents
    [] handler = "handleTransferWithMessage" -> TransferExecutedEvents
    [] handler = "handleMemoizedSwap" -> MemoizedSwapEvents

\* The (transactionHash, logIndex) pair of a log.
Slot(event) == <<event.transaction.hash, event.logIndex>>

\* The positions in the log of the deliveries to one entity type's handlers.
DeliveriesTo(type) == {i \in DOMAIN log : EntityType(log[i].handler) = type}

\* A handler has been called; Last is the latest delivery.
Acted == log # <<>>

Last == log[Len(log)]

\* The latest delivery repeats an earlier one.
Retry == \E i \in 1..(Len(log) - 1) : log[i] = Last

\* --------------------------------------------------------------------- C1

\* C1 (idempotence): once a handler has been invoked on an event E, the table
\* holds exactly one entity under E's id, that entity is the one the handler
\* builds from E, and invoking the handler on E again leaves the table as it
\* is; so after the second or a later invocation the entity is the one stored
\* by the first.
C1_Idempotent ==
  Acted =>
    LET id == Entity(Last.handler, Last.event).id IN
      /\ Cardinality(get(Table(Last.handler), id)) = 1
      /\ get(Table(Last.handler), id) = {Entity(Last.handler, Last.event)}
      /\ Handle(Last.handler, Table(Last.handler), Last.event)
           = Table(Last.handler)

\* An event has been delivered to the same handler a second time, and its
\* entity is stored once.
C1_Witness ==
  /\ Acted
  /\ Retry
  /\ Cardinality(Table(Last.handler)) = 1

\* --------------------------------------------------------------------- C2

\* C2 (identity uniqueness): for DataWritten and TransferExecuted events the
\* id a handler computes for the log just ingested equals the id it computes
\* for any other log exactly when the two have the same (transactionHash,
\* logIndex) pair; and the log is stored as an entity distinct from that of
\* every log of its type ingested before it with a different pair.
C2_IdentityUnique ==
  (Acted /\ Last.handler # "handleMemoizedSwap") =>
    LET id == Entity(Last.handler, Last.event).id
        t  == Table(Last.handler)
    IN
      /\ \A e \in EventsOf(Last.handler) :
           (id = Entity(Last.handler, e).id) <=> (Slot(Last.event) = Slot(e))
      /\ \A j \in DeliveriesTo(EntityType(Last.handler)) :
           Slot(Last.event) # Slot(log[j].event) =>
             LET r1 == get(t, id)
                 r2 == get(t, Entity(log[j].handler, log[j].event).id)
             IN  r1 # {} /\ r2 # {} /\ r1 \cap r2 = {}

\* Scenario B: two DataWritten events of one transaction, at logIndex 0 and
\* 1, have been ingested and the table holds two entities.
C2_Witness ==
  /\ \E i, j \in DOMAIN log :
       /\ log[i].handler = "handleDataWritten"
       /\ log[j].handler = "handleDataWritten"
       /\ log[i].event.transaction.hash = log[j].event.transaction.hash
       /\ log[i].event.logIndex = 0 /\ log[j].event.logIndex = 1
  /\ Cardinality(dataWrittenEvents) = 2

\* --------------------------------------------------------------------- C3

\* The distinct (transactionHash, logIndex) pairs ingested for a type.
SlotsIngested(type) == {Slot(log[i].event) : i \in DeliveriesTo(type)}

\* The distinct transaction hashes ingested for a type.
HashesIngested(type) ==
  {log[i].event.transaction.hash : i \in DeliveriesTo(type)}

\* The entity stored by delivery i is still in its table as it was stored.
StillStored(i) == Entity(log[i].handler, log[i].event) \in Table(log[i].handler)

\* Every log of delivery i's type ingested after it had another
\* (transactionHash, logIndex) pair.
OnlyOtherPairsSince(i) ==
  \A j \in DeliveriesTo(EntityType(log[i].handler)) :
    j > i => Slot(log[j].event) # Slot(log[i].event)

\* C3 as stated, for every entity type: the table holds exactly one entity
\* per distinct (transactionHash, logIndex) pair ingested, and ingesting logs
\* with different pairs never changes an entity already stored.
C3_OnePerPairEveryType ==
  /\ \A type \in EntityTypes :
       Cardinality(TableOfType(type)) = Cardinality(SlotsIngested(type))
  /\ \A i \in DOMAIN log : OnlyOtherPairsSince(i) => StillStored(i)

\* C3 (entity lifecycle), amended: the DataWrittenEvent and
\* TransferWithMessageEvent tables hold exactly one entity per distinct
\* (transactionHash, logIndex) pair ingested, and ingesting logs with
\* different pairs never changes a stored entity of theirs; the
\* MemoizedSwapEvent table holds exactly one entity per distinct transaction
\* hash ingested, and ingesting swap logs of other transactions never changes
\* a stored swap entity.
C3_Lifecycle ==
  /\ \A type \in EntityTypes \ {"MemoizedSwapEvent"} :
       Cardinality(TableOfType(type)) = Cardinality(SlotsIngested(type))
  /\ \A i \in DOMAIN log :
       (log[i].handler # "handleMemoizedSwap" /\ OnlyOtherPairsSince(i))
         => StillStored(i)
  /\ Cardinality(memoizedSwapEvents)
       = Cardinality(HashesIngested("MemoizedSwapEvent"))
  /\ \A i \in DeliveriesTo("MemoizedSwapEvent") :
       (\A j \in DeliveriesTo("MemoizedSwapEvent") :
          j > i => log[j].event.transaction.hash
                     # log[i].event.transaction.hash)
         => StillStored(i)

\* A log has been ingested after another log of its type with a different
\* pair and a different transaction, and both entities are stored.
C3_Witness ==
  \E type \in EntityTypes :
    /\ Cardinality(DeliveriesTo(type)) >= 2
    /\ Cardinality(SlotsIngested(type)) = 2
    /\ Cardinality(HashesIngested(type)) = 2
    /\ Cardinality(TableOfType(type)) = 2
    /\ \A i \in DeliveriesTo(type) : StillStored(i)

\* --------------------------------------------------------------------- C4

\* The fields handleMemoizedSwap is to copy from the event into entity r.
HasFieldsOf(r, event) ==
  /\ r.transactionHash = event.transaction.hash
  /\ r.from = event.params.from
  /\ r.recipient = event.params.recipient
  /\ r.message = event.params.message
  /\ r.amountIn = event.params.amountIn
  /\ r.amountOut = event.params.amountOut
  /\ r.timestamp = event.block.timestamp
  /\ r.blockNumber = event.block.number

\* C4 (swap identity): the MemoizedSwapEvent table holds at most one entity
\* per transaction hash, and the entity of a transaction has the fields of
\* the MemoizedSwap event of that transaction that was processed last.
C4_SwapIdentity ==
  /\ \A r1, r2 \in memoizedSwapEvents :
       r1.transactionHash = r2.transactionHash => r1 = r2
  /\ \A i \in DeliveriesTo("MemoizedSwapEvent") :
       (\A j \in DeliveriesTo("MemoizedSwapEvent") :
          j > i => log[j].event.transaction.hash
                     # log[i].event.transaction.hash)
         => \E r \in memoizedSwapEvents : HasFieldsOf(r, log[i].event)

\* Two MemoizedSwap events of one transaction, with different messages and
\* log indexes, have been processed, and one entity is stored.
C4_Witness ==
  /\ \E i, j \in DeliveriesTo("MemoizedSwapEvent") :
       /\ i < j
       /\ log[i].event.transaction.hash = log[j].event.transaction.hash
       /\ log[i].event.logIndex # log[j].event.logIndex
       /\ log[i].event.params.message # log[j].event.params.message
  /\ Cardinality(memoizedSwapEvents) = 1

\* --------------------------------------------------------------------- C5

\* C5 (block timestamp wins for DataWritten): after a DataWritten event with
\* timestamp parameter T in a block with timestamp B has been ingested, the
\* entity under the derived id has the event's message and its timestamp is
\* B, whatever T is.
C5_BlockTimestampWins ==
  (Acted /\ Last.handler \in DataHandlers) =>
    \E r \in get(dataWrittenEvents,
                 concatI32(Last.event.transaction.hash, Last.event.logIndex)) :
      /\ r.message = Last.event.params.message
      /\ r.timestamp = Last.event.block.timestamp

\* --------------------------------------------------------------------- C6

\* Two events that differ at most in their decoded timestamp parameter.
SameButTimestamp(e1, e2) ==
  /\ e1.transaction = e2.transaction
  /\ e1.logIndex = e2.logIndex
  /\ e1.block = e2.block
  /\ \A f \in DOMAIN e1.params \ {"timestamp"} : e1.params[f] = e2.params[f]

Provenance(entity) ==
  <<entity.timestamp, entity.blockNumber, entity.transactionHash>>

\* C6 (provenance from the block and transaction context), for the handlers
\* of the three event types (handleDataWritten, handleTransferWithMessage,
\* handleMemoizedSwap): the entity stored for the event just ingested has the
\* block's timestamp, and the entity built for an event that differs from it
\* only in the timestamp parameter has the same timestamp, blockNumber and
\* transactionHash.
C6_ProvenanceFromContext ==
  (Acted /\ Last.handler # "handleDataWritten_part000") =>
    \A r \in get(Table(Last.handler), Entity(Last.handler, Last.event).id) :
      /\ r.timestamp = Last.event.block.timestamp
      /\ \A e2 \in EventsOf(Last.handler) :
           SameButTimestamp(Last.event, e2) =>
             Provenance(Entity(Last.handler, e2)) = Provenance(r)

\* --------------------------------------------------------------------- C7

\* The entities the deliveries made so far to a type's handlers project to.
Projected(type) ==
  {Entity(log[i].handler, log[i].event) : i \in DeliveriesTo(type)}

\* No two different deliveries to one entity type have the same
\* (transactionHash, logIndex) pair: the logs delivered are a set of logs of
\* one chain.
DistinctPairs ==
  \A i, j \in DOMAIN log :
    /\ log[i] # log[j]
    /\ EntityType(log[i].handler) = EntityType(log[j].handler)
    => Slot(log[i].event) # Slot(log[j].event)

\* No two different MemoizedSwap deliveries are of the same transaction.
DistinctSwapHashes ==
  \A i, j \in DeliveriesTo("MemoizedSwapEvent") :
    log[i] # log[j]
      => log[i].event.transaction.hash # log[j].event.transaction.hash

\* C7 as stated: whatever the order in which a set of logs was delivered,
\* the tables hold exactly the entities the logs project to (so the final
\* store is a function of the set alone).
C7_AnyOrderSameStore ==
  DistinctPairs =>
    \A type \in EntityTypes : TableOfType(type) = Projected(type)

\* C7 (delivery-order independence), amended: for a set of logs in which no
\* two MemoizedSwap logs are of the same transaction, the tables hold, in
\* whatever order the logs were delivered, exactly the entities the logs
\* project to; and an upsert never changes the entity stored under another
\* id.
C7_OrderIndependent ==
  /\ (DistinctPairs /\ DistinctSwapHashes) =>
       \A type \in EntityTypes : TableOfType(type) = Projected(type)
  /\ \A i \in DOMAIN log :
       (\A j \in DeliveriesTo(EntityType(log[i].handler)) :
          j > i => Entity(log[j].handler, log[j].event).id
                     # Entity(log[i].handler, log[i].event).id)
         => StillStored(i)

\* Two logs of one entity type with different ids have been delivered, the
\* later one in the chain first, and both entities are stored.
C7_Witness ==
  /\ DistinctPairs /\ DistinctSwapHashes
  /\ \E i, j \in DOMAIN log :
       /\ i < j
       /\ EntityType(log[i].handler) = EntityType(log[j].handler)
       /\ log[i].event.block.number > log[j].event.block.number
       /\ StillStored(i) /\ StillStored(j)

\* ================================================================ queries

\* ------------------------------------------------- the GraphQL endpoint

\* Lexicographic order of two byte sequences (the order of ids).
RECURSIVE BytesLess(_, _)
BytesLess(a, b) ==
  IF b = <<>> THEN FALSE
  ELSE IF a = <<>> THEN TRUE
  ELSE IF a[1] # b[1] THEN a[1] < b[1]
  ELSE BytesLess(Tail(a), Tail(b))

\* orderBy: timestamp, orderDirection: desc.  Rows with equal timestamps
\* are ordered by id in the same direction, so the order is total.
Before(a, b) ==
  \/ a.timestamp > b.timestamp
  \/ a.timestamp = b.timestamp /\ BytesLess(b.id, a.id)

\* The rows of a set in the order of the query.
RECURSIVE Ordered(_)
Ordered(rows) ==
  IF rows = {} THEN <<>>
  ELSE LET top == CHOOSE r \in rows : \A o \in rows \ {r} : Before(r, o)
       IN  <<top>> \o Ordered(rows \ {top})

Min(a, b) == IF a < b THEN a ELSE b

\* first: `first`, skip: `skip` of an ordered result.
Page(rows, first, skip) == SubSeq(rows, skip + 1, Min(skip + first, Len(rows)))

\* BigInt fields are rendered in the response as decimal strings (here the
\* sequence of their digits), which the client parses back with parseInt.
RECURSIVE toString(_)
toString(n) == IF n < 10 THEN <<n>> ELSE toString(n \div 10) \o <<n % 10>>

RECURSIVE parseInt(_)
parseInt(digits) ==
  IF Len(digits) = 1 THEN digits[1]
  ELSE 10 * parseInt(SubSeq(digits, 1, Len(digits) - 1)) + digits[Len(digits)]

\* ------------------------------------------------------------- DataList

\* combinedQuery asks for at most 50 rows of each of the two types.
QueryFirst == 50

\* The selection set of dataWrittenEvents in combinedQuery.
DataEventJson(e) ==
  [ id |-> e.id, eventId |-> toString(e.eventId), from |-> e.from,
    message |-> e.message, timestamp |-> toString(e.timestamp),
    transactionHash |-> e.transactionHash ]

\* The selection set of transferWithMessageEvents in combinedQuery.
TransferEventJson(e) ==
  [ id |-> e.id, transferId |-> toString(e.transferId), from |-> e.from,
    to |-> e.to, amount |-> toString(e.amount), message |-> e.message,
    timestamp |-> toString(e.timestamp),
    transactionHash |-> e.transactionHash ]

\* jsonResponse.data of combinedQuery against the two tables.
combinedQuery(dataTable, transferTable) ==
  LET dataRows     == Page(Ordered(dataTable), QueryFirst, 0)
      transferRows == Page(Ordered(transferTable), QueryFirst, 0)
  IN  [ dataWrittenEvents |->
          [i \in 1..Len(dataRows) |-> DataEventJson(dataRows[i])],
        transferWithMessageEvents |->
          [i \in 1..Len(transferRows) |->
             TransferEventJson(transferRows[i])] ]

\* ({ ...event, type }) of every row.
WithType(type, seq) ==
  [i \in 1..Len(seq) |->
     [f \in DOMAIN seq[i] \cup {"type"} |->
        IF f = "type" THEN type ELSE seq[i][f]]]

\* Mutant: the combined list is left as it was merged.
sortByTimestamp_unsorted(combinedData) == combinedData

\* combinedData.sort((a, b) => parseInt(b.timestamp) - parseInt(a.timestamp))
\* Array.prototype.sort is stable: rows the comparator finds equal keep
\* their order.
RECURSIVE sortByTimestamp(_)
sortByTimestamp(combinedData) ==
  IF combinedData = <<>> THEN <<>>
  ELSE LET n      == Len(combinedData)
           x      == combinedData[n]
           sorted == sortByTimestamp(SubSeq(combinedData, 1, n - 1))
           NotAfter(y) ==
             parseInt(x.timestamp) - parseInt(y.timestamp) <= 0
           After(y) == ~NotAfter(y)
       IN  SelectSeq(sorted, NotAfter) \o <<x>> \o SelectSeq(sorted, After)

\* The list fetchData builds of a successful response.
combinedData(data) ==
  sortByTimestamp(WithType("data", data.dataWrittenEvents)
                  \o WithType("transfer", data.transferWithMessageEvents))

\* Calls of fetchData in one behaviour.
MaxFetches == 2

FetchErrors ==
  [ network |-> "Failed to fetch",
    http    |-> "HTTP error! status: 500",
    graphql |-> "GraphQL error: indexing_error" ]

\* if (error): null and the empty string are falsy.
Truthy(error) == error # <<>> /\ error[1] # ""

\* data.filter(event => filter === 'all' || event.type === filter)
filteredData(list) ==
  LET Kept(event) == list.filter = "all" \/ event.type = list.filter
  IN  SelectSeq(list.data, Kept)

\* What DataList renders.
Rendered(list) ==
  IF list.loading THEN "loading"
  ELSE IF Truthy(list.error) THEN "error"
  ELSE IF Len(filteredData(list)) = 0 THEN "no records"
  ELSE "table"

\* The controls (refresh and filter buttons) are rendered with the list.
ControlsRendered(list) == Rendered(list) \in {"no records", "table"}

\* fetchData is called by the effect after mounting and by the refresh
\* button: setLoading(true); setError(null); await fetch(...).
FetchData ==
  /\ ~dataList.fetching
  /\ dataList.outcome = <<>> \/ ControlsRendered(dataList)
  /\ Len(dataList.outcome) < MaxFetches
  /\ dataList' = [dataList EXCEPT !.loading = TRUE, !.error = <<>>,
                                  !.fetching = TRUE]
  /\ UNCHANGED <<storeVars, invocation, otherVars, dataStoredEvents, query,
                 subscription>>

\* Mutant: the catch block swallows the error.
Caught_swallowed(list, kind) ==
  [list EXCEPT !.loading = FALSE, !.fetching = FALSE,
               !.outcome = Append(@, [kind |-> kind, data |-> <<>>])]

\* catch (e) { setError(e.message) } finally { setLoading(false) }
Caught(list, kind) ==
  [list EXCEPT !.error = <<FetchErrors[kind]>>, !.loading = FALSE,
               !.fetching = FALSE,
               !.outcome = Append(@, [kind |-> kind, data |-> <<>>])]

\* await fetch(...) rejects.
FetchRejects ==
  /\ dataList.fetching
  /\ dataList' = Caught(dataList, "network")
  /\ UNCHANGED <<storeVars, invocation, otherVars, dataStoredEvents, query,
                 subscription>>

\* if (!response.ok) throw
ResponseNotOk ==
  /\ dataList.fetching
  /\ dataList' = Caught(dataList, "http")
  /\ UNCHANGED <<storeVars, invocation, otherVars, dataStoredEvents, query,
                 subscription>>

\* if (jsonResponse.errors) throw
ResponseHasErrors ==
  /\ dataList.fetching
  /\ dataList' = Caught(dataList, "graphql")
  /\ UNCHANGED <<storeVars, invocation, otherVars, dataStoredEvents, query,
                 subscription>>

\* Mutant: the rows fetched are added to the rows already held.
Fetched_appended(list, data) ==
  [list EXCEPT !.data = @ \o combinedData(data), !.loading = FALSE,
               !.fetching = FALSE,
               !.outcome = Append(@, [kind |-> "ok",
                                      data |-> list.data \o combinedData(data)])]

\* The response carries data: setData(combinedData); setLoading(false).
Fetched(list, data) ==
  [list EXCEPT !.data = combinedData(data), !.loading = FALSE,
               !.fetching = FALSE,
               !.outcome = Append(@, [kind |-> "ok",
                                      data |-> combinedData(data)])]

ResponseHasData ==
  /\ dataList.fetching
  /\ dataList' = Fetched(dataList, combinedQuery(dataWrittenEvents,
                                                 transferWithMessageEvents))
  /\ UNCHANGED <<storeVars, invocation, otherVars, dataStoredEvents, query,
                 subscription>>

\* onClick={() => setFilter(f)}
SetFilter(f) ==
  /\ ControlsRendered(dataList)
  /\ f # dataList.filter
  /\ dataList' = [dataList EXCEPT !.filter = f]
  /\ UNCHANGED <<storeVars, invocation, otherVars, dataStoredEvents, query,
                 subscription>>

\* The tables k deliveries can have built.
RECURSIVE DataWrittenTables(_)
DataWrittenTables(k) ==
  IF k = 0 THEN {{}}
  ELSE LET before == DataWrittenTables(k - 1)
       IN  before \cup { handleDataWritten(table, event) :
                           table \in before, event \in DataWrittenEvents }

RECURSIVE TransferTables(_)
TransferTables(k) ==
  IF k = 0 THEN {{}}
  ELSE LET before == TransferTables(k - 1)
       IN  before \cup { handleTransferWithMessage(table, event) :
                           table \in before, event \in TransferExecutedEvents }

\* DataList is mounted over a store that MaxDeliveries deliveries or fewer
\* have built (the deliveries themselves are not recorded in `log`).
InitDataList ==
  /\ dataWrittenEvents \in DataWrittenTables(MaxDeliveries)
  /\ transferWithMessageEvents \in
       TransferTables(MaxDeliveries - Cardinality(dataWrittenEvents))
  /\ memoizedSwapEvents = {}
  /\ log = <<>>
  /\ invocation = NoInvocation
  /\ ContractsDeployed
  /\ FrontendMounted
  /\ ClientsIdle

NextDataList ==
  \/ FetchData
  \/ FetchRejects
  \/ ResponseNotOk
  \/ ResponseHasErrors
  \/ ResponseHasData
  \/ \E f \in {"all", "data", "transfer"} : SetFilter(f)

SpecDataList == InitDataList /\ [][NextDataList]_vars

\* ------------------------------------------------------------------ C11
\* C11 (order preservation): the rows a query with orderBy: timestamp,
\* orderDirection: desc returns are non-increasing in timestamp, and so is
\* the list DataList holds after every successful fetch, across both types.
NonIncreasing(timestamps) ==
  \A i \in 1..(Len(timestamps) - 1) : timestamps[i] >= timestamps[i + 1]

\* The timestamps of a sequence of rows.
Timestamps(rows) == [i \in 1..Len(rows) |-> rows[i].timestamp]

\* The timestamp a rendered row stands for.
StoredTimestamp(row) ==
  LET table == IF row.type = "data" THEN dataWrittenEvents
               ELSE transferWithMessageEvents
  IN  (CHOOSE e \in table : e.id = row.id).timestamp

LastOutcome == dataList.outcome[Len(dataList.outcome)]

FetchSucceeded ==
  ~dataList.fetching /\ dataList.outcome # <<>> /\ LastOutcome.kind = "ok"

C11_OrderPreserved ==
  /\ NonIncreasing(Timestamps(Ordered(dataWrittenEvents)))
  /\ NonIncreasing(Timestamps(Ordered(transferWithMessageEvents)))
  /\ FetchSucceeded =>
       NonIncreasing([i \in 1..Len(dataList.data) |->
                        StoredTimestamp(dataList.data[i])])

\* A successful fetch has merged rows of both types, and a transfer is newer
\* than a data row, so the merged list had to be reordered.
C11_Witness ==
  /\ FetchSucceeded
  /\ \E i, j \in 1..Len(dataList.data) :
       /\ dataList.data[i].type = "transfer"
       /\ dataList.data[j].type = "data"
       /\ StoredTimestamp(dataList.data[i]) > StoredTimestamp(dataList.data[j])

FetchFailed ==
  ~dataList.fetching /\ dataList.outcome # <<>> /\ LastOutcome.kind # "ok"

\* C16 as stated: a failed fetchData ends with loading false and a non-null
\* error rendered instead of the list, and 'no records yet' is rendered only
\* after a successful query that returned zero entities, with error null.
C16_NoRecordsOnlyAfterEmptyQuery ==
  /\ FetchFailed =>
       /\ ~dataList.loading
       /\ dataList.error # <<>>
       /\ Rendered(dataList) = "error"
  /\ Rendered(dataList) = "no records" =>
       /\ FetchSucceeded
       /\ dataList.error = <<>>
       /\ Len(LastOutcome.data) = 0

\* The rows of the last response that the filter selects.
SelectedRows ==
  LET Kept(event) == dataList.filter = "all" \/ event.type = dataList.filter
  IN  SelectSeq(LastOutcome.data, Kept)

\* C16, amended: a failed fetchData ends with loading false and a non-null
\* error rendered instead of the list, and 'no records yet' is rendered only
\* after a successful query, with error null, that returned zero entities of
\* the type the filter selects.
C16_ErrorNeverShownAsEmpty ==
  /\ FetchFailed =>
       /\ ~dataList.loading
       /\ dataList.error # <<>>
       /\ Rendered(dataList) = "error"
  /\ Rendered(dataList) = "no records" =>
       /\ FetchSucceeded
       /\ dataList.error = <<>>
       /\ Len(SelectedRows) = 0

\* A refresh has failed while DataList held rows of an earlier fetch.
C16_Witness ==
  /\ FetchFailed
  /\ Len(dataList.data) > 0
  /\ Rendered(dataList) = "error"

\* ------------------------------- fetchDataEvents, fetchFilteredDataEvents

\* Rows of the dataStoredEvents table in one behaviour.
MaxRows == 2

\* Strings that are searched or compared letter by letter are sequences of
\* characters.
LowerChar(c) ==
  CASE c = "A" -> "a"
    [] c = "B" -> "b"
    [] c = "N" -> "n"
    [] c = "P" -> "p"
    [] OTHER   -> c

\* String.prototype.toLowerCase
toLowerCase(str) == [i \in 1..Len(str) |-> LowerChar(str[i])]

\* The `user` of a stored row is the lower-case hex text of an address.
StoredUsers == { <<"0", "x", "a">>, <<"0", "x", "b">> }

StoredMessages == { <<"p", "a", "y">>, <<"N", "o">> }

\* Block timestamps of the stored rows, in seconds.
StoredTimestamps == 1..2

\* Row k of the table: the entity of the log of transaction k.
DataStoredRows(k) ==
  { [ id |-> <<k>>, user |-> u, message |-> m, timestamp |-> t,
      blockNumber |-> k, transactionHash |-> <<k>> ]
    : u \in StoredUsers, m \in StoredMessages, t \in StoredTimestamps }

\* The tables of n rows.
RECURSIVE DataStoredTables(_)
DataStoredTables(n) ==
  IF n = 0 THEN {{}}
  ELSE { table \cup {row} :
           table \in DataStoredTables(n - 1), row \in DataStoredRows(n) }

\* An optional field of QueryFilters or of a where clause is the empty
\* sequence when it is absent and <<value>> when it is present.
Absent == <<>>

Optional(values) == {Absent} \cup { <<v>> : v \in values }

\* userAddress as a caller writes it: checksummed (mixed case) or not.
UserAddresses == { <<"0", "x", "A">>, <<"0", "x", "c">> }

\* Date.getTime() of fromDate and toDate, in milliseconds.
Dates == {1500, 2000}

\* messageContains; the empty string is one of them.
Substrings == { <<"P", "a">>, <<>> }

QueryFilters ==
  [ userAddress     : Optional(UserAddresses),
    fromDate        : Optional(Dates),
    toDate          : Optional(Dates),
    messageContains : Optional(Substrings) ]

NoFilters ==
  [ userAddress |-> Absent, fromDate |-> Absent, toDate |-> Absent,
    messageContains |-> Absent ]

\* s.includes(sub)
Contains(str, sub) ==
  \E i \in 0..(Len(str) - Len(sub)) : SubSeq(str, i + 1, i + Len(sub)) = sub

\* where: { user, timestamp_gte, timestamp_lte, message_contains_nocase } as
\* the endpoint applies it to a row; a BigInt variable arrives as a decimal
\* string.
Matches(row, where) ==
  /\ where.user # Absent => row.user = where.user[1]
  /\ where.timestamp_gte # Absent =>
       row.timestamp >= parseInt(where.timestamp_gte[1])
  /\ where.timestamp_lte # Absent =>
       row.timestamp <= parseInt(where.timestamp_lte[1])
  /\ where.message_contains_nocase # Absent =>
       Contains(toLowerCase(row.message),
                toLowerCase(where.message_contains_nocase[1]))

\* The selection set of dataStoredEvents.
DataStoredJson(e) ==
  [ id |-> e.id, user |-> e.user, message |-> e.message,
    timestamp |-> toString(e.timestamp),
    blockNumber |-> toString(e.blockNumber),
    transactionHash |-> e.transactionHash ]

\* result.data.dataStoredEvents of
\* dataStoredEvents(first, skip, where, orderBy: timestamp,
\*                  orderDirection: desc).
dataStoredEventsQuery(table, where, first, skip) ==
  LET rows == Page(Ordered({row \in table : Matches(row, where)}),
                   first, skip)
  IN  [i \in 1..Len(rows) |-> DataStoredJson(rows[i])]

\* if (filters.x): an absent field, and the empty string, are falsy; a Date
\* is truthy.
Supplied(field) == field # Absent /\ field[1] # <<>>

\* The where clause and variables fetchFilteredDataEvents builds.
whereOf(filters) ==
  [ user |-> IF Supplied(filters.userAddress)
             THEN <<toLowerCase(filters.userAddress[1])>> ELSE Absent,
    timestamp_gte |-> IF filters.fromDate # Absent
                      THEN <<toString(filters.fromDate[1] \div 1000)>>
                      ELSE Absent,
    timestamp_lte |-> IF filters.toDate # Absent
                      THEN <<toString(filters.toDate[1] \div 1000)>>
                      ELSE Absent,
    message_contains_nocase |-> IF Supplied(filters.messageContains)
                                THEN <<filters.messageContains[1]>>
                                ELSE Absent ]

NoWhere ==
  [ user |-> Absent, timestamp_gte |-> Absent, timestamp_lte |-> Absent,
    message_contains_nocase |-> Absent ]

\* limit = 10, skip = 0 when the caller passes none.
DefaultLimit == 10

DefaultSkip == 0

\* The outcomes of the POST other than a response with data: the response
\* has an errors array, or fetch rejects.
QueryErrors ==
  [ graphql |-> "Store error: query timed out",
    network |-> "Failed to fetch" ]

\* return { data: [], error: ... }
Failure(kind) == [data |-> <<>>, error |-> <<QueryErrors[kind]>>]

\* Mutant: an empty page is reported as an error.
Success_notFound(rows) ==
  IF rows = <<>> THEN [data |-> <<>>, error |-> <<"not found">>]
  ELSE [data |-> rows, error |-> Absent]

\* return { data: result.data.dataStoredEvents }
Success(rows) == [data |-> rows, error |-> Absent]

\* Mutant: skip is sent as a page number.
fetchDataEvents_pageNumber(table, limit, skip) ==
  Success(dataStoredEventsQuery(table, NoWhere, limit, skip * limit))

\* fetchDataEvents(limit, skip) when the endpoint answers with data.
fetchDataEvents(table, limit, skip) ==
  Success(dataStoredEventsQuery(table, NoWhere, limit, skip))

\* fetchFilteredDataEvents(filters, limit, skip) when the endpoint answers
\* with data.
fetchFilteredDataEvents(table, filters, limit, skip) ==
  Success(dataStoredEventsQuery(table, whereOf(filters), limit, skip))

\* The limits and offsets a caller passes.
Limits == 0..(MaxRows + 1)

Skips == 0..(MaxRows + 1)

\* A caller makes one call in a behaviour; `answer` is what came back of the
\* POST: "data", or a key of QueryErrors.
Call(fn, filters, limit, skip, answer, result) ==
  /\ query = NoQuery
  /\ query' = <<[fn |-> fn, filters |-> filters, limit |-> limit,
                 skip |-> skip, answer |-> answer, result |-> result]>>
  /\ UNCHANGED <<storeVars, invocation, otherVars, dataStoredEvents, dataList,
                 subscription>>

FetchDataEvents(limit, skip) ==
  Call("fetchDataEvents", NoFilters, limit, skip, "data",
       fetchDataEvents(dataStoredEvents, limit, skip))

FetchDataEventsFails(kind, limit, skip) ==
  Call("fetchDataEvents", NoFilters, limit, skip, kind, Failure(kind))

FetchFilteredDataEvents(filters) ==
  Call("fetchFilteredDataEvents", filters, DefaultLimit, DefaultSkip, "data",
       fetchFilteredDataEvents(dataStoredEvents, filters, DefaultLimit,
                               DefaultSkip))

FetchFilteredDataEventsFails(kind, filters) ==
  Call("fetchFilteredDataEvents", filters, DefaultLimit, DefaultSkip, kind,
       Failure(kind))

InitQuery ==
  /\ EmptyStore
  /\ invocation = NoInvocation
  /\ ContractsDeployed
  /\ FrontendMounted
  /\ dataStoredEvents \in UNION { DataStoredTables(n) : n \in 0..MaxRows }
  /\ query = NoQuery
  /\ dataList = DataListMounted
  /\ subscription = NewSubscription

NextQuery ==
  \/ \E limit \in Limits, skip \in Skips : FetchDataEvents(limit, skip)
  \/ \E kind \in DOMAIN QueryErrors, limit \in Limits, skip \in Skips :
       FetchDataEventsFails(kind, limit, skip)
  \/ \E filters \in QueryFilters : FetchFilteredDataEvents(filters)
  \/ \E kind \in DOMAIN QueryErrors, filters \in QueryFilters :
       FetchFilteredDataEventsFails(kind, filters)

SpecQuery == InitQuery /\ [][NextQuery]_vars

\* ------------------------------------------------------------------ C12
TheCall == query[1]

\* The call of `fn` was answered with data.
Answered(fn) ==
  query # NoQuery /\ TheCall.fn = fn /\ TheCall.answer = "data"

\* Addresses are equal when their hex digits are, whatever the case.
AddressEquals(a, b) == toLowerCase(a) = toLowerCase(b)

\* The predicates a caller supplies with QueryFilters, on a stored row:
\* sender equals userAddress, occurredAt >= fromDate, occurredAt <= toDate
\* (occurredAt in seconds, the dates in milliseconds), message contains
\* messageContains whatever the case.
Satisfies(row, filters) ==
  /\ filters.userAddress # Absent =>
       AddressEquals(row.user, filters.userAddress[1])
  /\ filters.fromDate # Absent => row.timestamp * 1000 >= filters.fromDate[1]
  /\ filters.toDate # Absent => row.timestamp * 1000 <= filters.toDate[1]
  /\ filters.messageContains # Absent =>
       Contains(toLowerCase(row.message),
                toLowerCase(filters.messageContains[1]))

ReturnedIds == { TheCall.result.data[i].id : i \in 1..Len(TheCall.result.data) }

\* C12 (filter conjunction correctness): a scan returns exactly the stored
\* entities that satisfy all supplied predicates: none that violates one,
\* and every one that satisfies all (the table has fewer rows than the
\* default limit, so no row is cut by pagination).
C12_FilterConjunction ==
  Answered("fetchFilteredDataEvents") =>
    ReturnedIds =
      { row.id : row \in { r \in dataStoredEvents :
                           Satisfies(r, TheCall.filters) } }

C15_EmptyNotError ==
  /\ ( Answered("fetchDataEvents")
       /\ TheCall.skip >= Cardinality(dataStoredEvents) )
     => TheCall.result = [data |-> <<>>, error |-> Absent]
  /\ ( Answered("fetchFilteredDataEvents")
       /\ \A row \in dataStoredEvents :
            ~Matches(row, whereOf(TheCall.filters)) )
     => TheCall.result = [data |-> <<>>, error |-> Absent]

\* A page was asked beyond the rows of a table that has rows.
C15_Witness ==
  /\ Answered("fetchDataEvents")
  /\ dataStoredEvents # {}
  /\ TheCall.limit > 0
  /\ TheCall.skip >= Cardinality(dataStoredEvents)

\* ================================================== GraphQLSubscription

\* Calls of subscribe in one behaviour.
MaxSubscriptions == 2

\* Entities the store commits in one behaviour.
MaxCommits == 2

\* send(message): the message is put on the socket if the socket is open,
\* and dropped if it is not.
send(sub, message) ==
  IF sub.ws = "OPEN" THEN [sub EXCEPT !.sent = Append(@, message)] ELSE sub

\* connect(url): this.ws = new WebSocket(wsUrl), and the four handlers.
Connect ==
  /\ subscription.ws = "null"
  /\ subscription' = [subscription EXCEPT !.ws = "CONNECTING"]
  /\ UNCHANGED <<storeVars, invocation, otherVars, dataStoredEvents, query, dataList>>

\* ws.onopen: sendConnectionInit().
OnOpen ==
  /\ subscription.ws = "CONNECTING"
  /\ subscription' = send([subscription EXCEPT !.ws = "OPEN"],
                          [type |-> "connection_init"])
  /\ UNCHANGED <<storeVars, invocation, otherVars, dataStoredEvents, query, dataList>>

\* subscribe(query, variables, callback): the id is the next number as a
\* string; the start message is sent; the callback is kept under the id.
subscribe(sub) ==
  LET id      == toString(sub.subscriptionId + 1)
      counted == [sub EXCEPT !.subscriptionId = @ + 1]
      started == send(counted, [type |-> "start", id |-> id])
  IN  [started EXCEPT !.subscriptionCallbacks = @ \cup {id},
                      !.subscribedAt = Append(@, sub.commits)]

\* As in the usage example, subscribe is called after connect; the socket
\* may or may not have opened by then.
Subscribe ==
  /\ subscription.ws # "null"
  /\ subscription.subscriptionId < MaxSubscriptions
  /\ subscription' = subscribe(subscription)
  /\ UNCHANGED <<storeVars, invocation, otherVars, dataStoredEvents, query, dataList>>

\* The server reads the next message of the socket: it acknowledges a
\* connection_init and starts the subscription of a start.
ServerReads ==
  /\ subscription.read < Len(subscription.sent)
  /\ LET message == subscription.sent[subscription.read + 1]
     IN  subscription' =
           IF message.type = "start"
           THEN [subscription EXCEPT !.read = @ + 1,
                                     !.started = @ \cup {message.id}]
           ELSE [subscription EXCEPT
                   !.read = @ + 1,
                   !.inbox = Append(@, [type |-> "connection_ack"])]
  /\ UNCHANGED <<storeVars, invocation, otherVars, dataStoredEvents, query, dataList>>

\* The data messages of a commit, one for each running subscription.
RECURSIVE DataMessages(_, _)
DataMessages(ids, payload) ==
  IF ids = {} THEN <<>>
  ELSE LET id == CHOOSE i \in ids : \A o \in ids : ~BytesLess(o, i)
       IN  <<[type |-> "data", id |-> id, payload |-> payload]>>
             \o DataMessages(ids \ {id}, payload)

\* The store commits an entity, and the server, which has read all that was
\* sent to it, pushes the entity to every running subscription.
Commit ==
  /\ subscription.commits < MaxCommits
  /\ subscription.read = Len(subscription.sent)
  /\ subscription' =
       [subscription EXCEPT
          !.commits = @ + 1,
          !.inbox = @ \o DataMessages(subscription.started,
                                      subscription.commits + 1)]
  /\ UNCHANGED <<storeVars, invocation, otherVars, dataStoredEvents, query, dataList>>

\* handleMessage(message): a data message is handed to the callback kept
\* under its id, if there is one; other messages call nothing.
handleMessage(sub, message) ==
  IF message.type = "data" /\ message.id \in sub.subscriptionCallbacks
  THEN [sub EXCEPT !.called = Append(@, [type |-> "data",
                                         id |-> message.id,
                                         payload |-> message.payload])]
  ELSE sub

\* ws.onmessage: handleMessage(JSON.parse(event.data)).
OnMessage ==
  /\ subscription.inbox # <<>>
  /\ subscription' =
       handleMessage([subscription EXCEPT !.inbox = Tail(@)],
                     Head(subscription.inbox))
  /\ UNCHANGED <<storeVars, invocation, otherVars, dataStoredEvents, query, dataList>>

\* The subscriber of `id` cancels.  GraphQLSubscription has no method for
\* it: nothing is sent and the callback stays in subscriptionCallbacks.
Cancel(id) ==
  /\ id \in subscription.subscriptionCallbacks
  /\ id \notin subscription.cancelled
  /\ subscription' = [subscription EXCEPT !.cancelled = @ \cup {id}]
  /\ UNCHANGED <<storeVars, invocation, otherVars, dataStoredEvents, query, dataList>>

SubscriptionIds == { toString(n) : n \in 1..MaxSubscriptions }

InitSubscription ==
  /\ EmptyStore
  /\ invocation = NoInvocation
  /\ ContractsDeployed
  /\ FrontendMounted
  /\ ClientsIdle

NextSubscription ==
  \/ Connect
  \/ OnOpen
  \/ Subscribe
  \/ ServerReads
  \/ Commit
  \/ OnMessage
  \/ \E id \in SubscriptionIds : Cancel(id)

SpecSubscription == InitSubscription /\ [][NextSubscription]_vars

\* The socket opens, the server reads what it is sent, and the browser
\* dispatches the messages that arrive.
FairSpecSubscription ==
  /\ SpecSubscription
  /\ WF_vars(OnOpen)
  /\ WF_vars(ServerReads)
  /\ WF_vars(OnMessage)

\* ------------------------------------------------------------------ C17
\* The payloads the callback of `id` was called with, in order.
CallsOf(sub, id) ==
  LET Mine(call) == call.id = id
  IN  [i \in 1..Len(SelectSeq(sub.called, Mine)) |->
         SelectSeq(sub.called, Mine)[i].payload]

\* subscribe has been called the n-th time.
Subscribed(n) == toString(n) \in subscription.subscriptionCallbacks

\* Entity c was committed after the n-th call of subscribe.
CommittedAfter(n, c) ==
  /\ Subscribed(n)
  /\ subscription.subscribedAt[n] < c
  /\ c <= subscription.commits

Received(n, c) ==
  \E i \in 1..Len(subscription.called) :
    /\ subscription.called[i].id = toString(n)
    /\ subscription.called[i].payload = c

InCommitOrder ==
  \A id \in SubscriptionIds :
    \A i, j \in 1..Len(CallsOf(subscription, id)) :
      i < j => CallsOf(subscription, id)[i] <= CallsOf(subscription, id)[j]

\* C17 (subscription ordering and completeness): every subscriber receives
\* each entity committed after it subscribed at least once, and receives
\* them in the order in which the store committed them.
C17_EveryCommitInOrder ==
  /\ []InCommitOrder
  /\ \A n \in 1..MaxSubscriptions : \A c \in 1..MaxCommits :
       CommittedAfter(n, c) ~> Received(n, c)

\* ------------------------------------------------------------------ C18
Connected == subscription.ws # "null"

\* A start message with the id of the n-th subscription has been sent, after
\* connection_init.
StartSent(n) ==
  \E i, j \in 1..Len(subscription.sent) :
    /\ i < j
    /\ subscription.sent[i].type = "connection_init"
    /\ subscription.sent[j].type = "start"
    /\ subscription.sent[j].id = toString(n)

\* C18 (a subscription request is never lost): after subscribe on a
\* GraphQLSubscription on which connect has been called, a start message
\* with the subscription's id is eventually sent, after connection_init,
\* also when subscribe is called before the socket has opened.
C18_StartEventuallySent ==
  \A n \in 1..MaxSubscriptions : (Connected /\ Subscribed(n)) ~> StartSent(n)

\* ------------------------------------------------------------------ C19
\* C19 (subscription cancellation): after a subscriber has cancelled, its
\* callback is not called again, not even with a notification that was
\* queued when it cancelled.
C19_NoCallAfterCancel ==
  [][ \A id \in subscription.cancelled :
        CallsOf(subscription', id) = CallsOf(subscription, id) ]_vars

\* ==================================================== store-write failure

\* Invocations that end well in one behaviour of SpecWrite.
MaxInvocations == 1

\* The handlers of data-storage.ts.
WriteHandlers == {"handleDataWritten", "handleMemoizedSwap"}

\* Mutant: the handler saves the entity a second time.
saves_twice(handler, event) ==
  <<Entity(handler, event), Entity(handler, event)>>

\* The handler saves the entity as soon as it is constructed, before it has
\* assigned its fields.
saves_beforeFields(handler, event) == <<[id |-> Entity(handler, event).id]>>

\* The calls of entity.save() a handler makes for an event, in order: each
\* handler builds one entity and saves it once, outside any loop.
saves(handler, event) == <<Entity(handler, event)>>

\* A table after the saves of a sequence of entities.
RECURSIVE Saved(_, _)
Saved(table, entities) ==
  IF entities = <<>> THEN table
  ELSE Saved(save(table, Head(entities)), Tail(entities))

\* An invocation whose saves all succeed: the entities are stored and the
\* log is processed.
InvokeHandler(handler, event) ==
  /\ Len(log) < MaxInvocations
  /\ LET table == Saved(Table(handler), saves(handler, event))
     IN  /\ dataWrittenEvents' =
              IF EntityType(handler) = "DataWrittenEvent"
              THEN table ELSE dataWrittenEvents
         /\ memoizedSwapEvents' =
              IF EntityType(handler) = "MemoizedSwapEvent"
              THEN table ELSE memoizedSwapEvents
  /\ log' = Append(log, [handler |-> handler, event |-> event])
  /\ invocation' = [handler |-> handler, event |-> event,
                    writes |-> Len(saves(handler, event)), result |-> "ok"]
  /\ UNCHANGED transferWithMessageEvents
  /\ UNCHANGED clientVars
  /\ UNCHANGED otherVars

\* An invocation whose save number `failing` fails: a handler has no code
\* that catches the failure (AssemblyScript has none), so the failure ends
\* the handler and reaches its caller; nothing of the invocation is stored
\* and the log is not processed.
InvokeHandlerFails(handler, event, failing) ==
  /\ failing \in 1..Len(saves(handler, event))
  /\ invocation' = [handler |-> handler, event |-> event,
                    writes |-> failing, result |-> "aborted"]
  /\ UNCHANGED storeVars
  /\ UNCHANGED clientVars
  /\ UNCHANGED otherVars

NextWrite ==
  \/ \E handler \in WriteHandlers : \E event \in EventsOf(handler) :
       InvokeHandler(handler, event)
  \/ \E handler \in WriteHandlers : \E event \in EventsOf(handler) :
       \E failing \in 1..2 : InvokeHandlerFails(handler, event, failing)

SpecWrite == Init /\ [][NextWrite]_vars

\* ------------------------------------------------------------------ C20
WriteFailed == invocation.result = "aborted"

MaxWrites == 3

\* writeData with the increment before the emit.
writeData_incrementFirst(storage, sender, message, timestamp) ==
  [ eventCounter |-> storage.eventCounter + 1,
    events |-> Append(storage.events,
                      [ eventId |-> storage.eventCounter + 1,
                        sender |-> sender, message |-> message,
                        timestamp |-> timestamp ]),
    timestamp |-> timestamp ]

\* writeData(message) called by `sender` in a block with `timestamp`: emits
\* DataWritten(eventCounter, msg.sender, message, block.timestamp), then
\* eventCounter++.  The function has no require and makes no call, so it
\* cannot revert between the two; the checked increment of the uint256
\* would revert only at 2^256 - 1, which no behaviour reaches.
writeData(storage, sender, message, timestamp) ==
  [ eventCounter |-> storage.eventCounter + 1,
    events |-> Append(storage.events,
                      [ eventId |-> storage.eventCounter,
                        sender |-> sender, message |-> message,
                        timestamp |-> timestamp ]),
    timestamp |-> timestamp ]

\* A transaction calls writeData; block timestamps do not decrease.
WriteData(sender, message, later) ==
  /\ Len(dataStorage.events) < MaxWrites
  /\ dataStorage' = writeData(dataStorage, sender, message,
                              dataStorage.timestamp + later)
  /\ UNCHANGED <<storeVars, invocation, clientVars, formVars,
                 transferContract>>

NextDataStorage ==
  \E sender \in Accounts, message \in Messages, later \in {0, 1} :
    WriteData(sender, message, later)

SpecDataStorage == Init /\ [][NextDataStorage]_vars

\* ------------------------------------------------------------------ C22
\* C22 (DataWritten sequence numbers): the k-th call of writeData emits
\* DataWritten with eventId k - 1, so that the eventIds are pairwise
\* distinct and increase strictly in the order of emission, and
\* eventCounter equals the number of DataWritten events emitted.
C22_EventIdsCount ==
  /\ \A k \in 1..Len(dataStorage.events) :
       dataStorage.events[k].eventId = k - 1
  /\ \A j, k \in 1..Len(dataStorage.events) :
       j < k => dataStorage.events[j].eventId < dataStorage.events[k].eventId
  /\ dataStorage.eventCounter = Len(dataStorage.events)

\* Three calls of writeData have been made, two of them by the same sender
\* with the same message in the same block.
C22_Witness ==
  /\ Len(dataStorage.events) = 3
  /\ dataStorage.events[1].sender = dataStorage.events[2].sender
  /\ dataStorage.events[1].message = dataStorage.events[2].message
  /\ dataStorage.events[1].timestamp = dataStorage.events[2].timestamp

\* ======================================================================
\* contract TransferWithMessage (contracts/SwapAndMemoV3.sol).
\* ======================================================================

\* The calls of transferWithMessage that can be in progress at once: one
\* started by a transaction and those made from inside its payment call.
MaxDepth == 2

\* msg.value of a call, in wei.
Values == {0, 1}

\* The accounts that have code.  A payment to an account without code
\* succeeds and runs nothing; the code of a contract may call back into
\* TransferWithMessage, and may fail.
Contracts == {"wallet"}

\* The innermost call in progress.
Top == transferContract.calls[Len(transferContract.calls)]

\* Who can call now: any account by a transaction while no call is in
\* progress; while a call waits at its payment call, the code of the
\* contract being paid.
Callers ==
  IF transferContract.calls = <<>> THEN Accounts
  ELSE IF Top.to \in Contracts THEN {Top.to} ELSE {}

\* The require statements at the head of transferWithMessage: the revert
\* reason, or <<>> when both pass.
requires(to, value) ==
  IF to = ZeroAddress THEN <<"Cannot transfer to zero address">>
  ELSE IF ~(value > 0) THEN <<"Transfer amount must be greater than 0">>
  ELSE <<>>

\* transferWithMessage from below its requires to above its payment call:
\* transferId is read from transferCounter, transfers[transferId] is
\* written, the id is pushed to both indexes, and TransferExecuted is
\* emitted.
transferWithMessage(chain, sender, to, value, message, timestamp) ==
  LET transferId == chain.transferCounter
  IN  [ chain EXCEPT
          !.transfers[transferId] =
            [ id |-> transferId, from |-> sender, to |-> to,
              amount |-> value, message |-> message,
              timestamp |-> timestamp ],
          !.senderTransfers[sender] = Append(@, transferId),
          !.receiverTransfers[to] = Append(@, transferId),
          !.events = Append(@, [ transferId |-> transferId, from |-> sender,
                                 to |-> to, amount |-> value,
                                 message |-> message,
                                 timestamp |-> timestamp ]) ]

\* The payment call's result is not required to be a success.
paid_unchecked(call, chain, success) ==
  IF success
  THEN [ chain EXCEPT
           !.payments = Append(@, [to |-> call.to, amount |-> call.value]),
           !.transferCounter = @ + 1 ]
  ELSE [chain EXCEPT !.transferCounter = @ + 1]

\* transferWithMessage from its payment call on: require(success, ...), then
\* transferCounter++.  When the payment fails the call reverts, which
\* restores the storage and the logs as they were when the call began
\* (`call.before`), whatever was done in between.
paid(call, chain, success) ==
  IF success
  THEN [ chain EXCEPT
           !.payments = Append(@, [to |-> call.to, amount |-> call.value]),
           !.transferCounter = @ + 1 ]
  ELSE call.before

\* block.timestamp of a call: a transaction is in a later block than the
\* one before it, a call made during a payment is in the same transaction.
Now ==
  IF transferContract.calls = <<>> THEN transferContract.timestamp + 1
  ELSE transferContract.timestamp

\* A call of transferWithMessage fails one of its requires and reverts.
Rejected(sender, to, value, message) ==
  /\ transferContract.started < MaxCalls
  /\ sender \in Callers
  /\ requires(to, value) # <<>>
  /\ transferContract' =
       [ transferContract EXCEPT
           !.started = @ + 1,
           !.timestamp = Now,
           !.last = [ op |-> "reverted", reason |-> requires(to, value),
                      to |-> to, value |-> value,
                      before |-> transferContract.chain ] ]
  /\ UNCHANGED <<storeVars, invocation, clientVars, formVars, dataStorage>>

\* A call of transferWithMessage passes its requires and runs up to its
\* payment call, which passes control to the recipient.
TransferWithMessage(sender, to, value, message) ==
  /\ transferContract.started < MaxCalls
  /\ Len(transferContract.calls) < MaxDepth
  /\ sender \in Callers
  /\ requires(to, value) = <<>>
  /\ transferContract' =
       [ transferContract EXCEPT
           !.started = @ + 1,
           !.timestamp = Now,
           !.chain = transferWithMessage(@, sender, to, value, message, Now),
           !.calls = Append(@, [ sender |-> sender, to |-> to,
                                 value |-> value,
                                 transferId |-> transferContract.chain
                                                  .transferCounter,
                                 before |-> transferContract.chain ]),
           !.last = [op |-> "called", to |-> to, value |-> value] ]
  /\ UNCHANGED <<storeVars, invocation, clientVars, formVars, dataStorage>>

\* The payment call of the innermost call in progress returns: with success
\* when the recipient has no code or its code returns, with failure when
\* its code reverts.
PaymentReturns(success) ==
  /\ transferContract.calls # <<>>
  /\ ~success => Top.to \in Contracts
  /\ transferContract' =
       [ transferContract EXCEPT
           !.chain = paid(Top, @, success),
           !.calls = SubSeq(@, 1, Len(@) - 1),
           !.last = IF success
                    THEN [ op |-> "returned", to |-> Top.to,
                           value |-> Top.value ]
                    ELSE [ op |-> "reverted",
                           reason |-> <<"Transfer failed">>,
                           to |-> Top.to, value |-> Top.value,
                           before |-> Top.before ] ]
  /\ UNCHANGED <<storeVars, invocation, clientVars, formVars, dataStorage>>

\* The width in bits that a uint256 is given here, so that the model has
\* a largest uint: no counter of a behaviour comes near it, only an argument
\* of a call can be that large.
UintWidth == 4

MaxUint == 2 ^ UintWidth - 1

\* getTransfer(transferId): require(transferId < transferCounter, ...), then
\* transfers[transferId].
getTransfer(chain, transferId) ==
  IF ~(transferId < chain.transferCounter)
  THEN [reverted |-> <<"Transfer does not exist">>, returned |-> <<>>]
  ELSE [reverted |-> <<>>, returned |-> <<chain.transfers[transferId]>>]

\* getTransfersBatch(offset, limit): require(offset < transferCounter, ...);
\* end = offset + limit, in checked arithmetic, which reverts with
\* Panic(0x11) when the sum does not fit a uint256; end is cut down to
\* transferCounter; result[i - offset] = transfers[i] for offset <= i < end.
getTransfersBatch(chain, offset, limit) ==
  IF ~(offset < chain.transferCounter)
  THEN [reverted |-> <<"Offset out of range">>, returned |-> <<>>]
  ELSE IF offset + limit > MaxUint
  THEN [reverted |-> <<"Panic(0x11)">>, returned |-> <<>>]
  ELSE LET end == IF offset + limit > chain.transferCounter
                  THEN chain.transferCounter ELSE offset + limit
       IN  [ reverted |-> <<>>,
             returned |-> [k \in 1..(end - offset) |->
                             chain.transfers[offset + k - 1]] ]

\* The arguments getTransfersBatch is called with.
Offsets == (0..2) \cup {MaxUint}

Limits256 == (0..2) \cup {MaxUint}

\* A call of the view function getTransfersBatch, on the state between two
\* transactions.
GetTransfersBatch(offset, limit) ==
  /\ transferContract.calls = <<>>
  /\ transferContract' =
       [ transferContract EXCEPT
           !.last = [ op |-> "getTransfersBatch", offset |-> offset,
                      limit |-> limit,
                      result |-> getTransfersBatch(transferContract.chain,
                                                   offset, limit) ] ]
  /\ UNCHANGED <<storeVars, invocation, clientVars, formVars, dataStorage>>

NextTransfer ==
  \/ \E sender \in Accounts, to \in Addresses, value \in Values,
        message \in Messages : Rejected(sender, to, value, message)
  \/ \E sender \in Accounts, to \in Addresses, value \in Values,
        message \in Messages : TransferWithMessage(sender, to, value, message)
  \/ \E success \in BOOLEAN : PaymentReturns(success)
  \/ \E offset \in Offsets, limit \in Limits256 :
       GetTransfersBatch(offset, limit)

SpecTransfer == Init /\ [][NextTransfer]_vars

\* ------------------------------------------------------------------ C23
\* The storage and the logs of the contract, and whether a transaction is
\* being executed.
Chain == transferContract.chain

BetweenTransactions == transferContract.calls = <<>>

\* The Transfer struct that a TransferExecuted event describes.
RecordOf(event) ==
  [ id |-> event.transferId, from |-> event.from, to |-> event.to,
    amount |-> event.amount, message |-> event.message,
    timestamp |-> event.timestamp ]

\* C23 (transferId is unique per transfer event): the TransferExecuted
\* events that transactions have left in the log, those of calls made by
\* the recipient's code during the payment call included, carry pairwise
\* distinct transferIds, and transfers[id] is the record of the one event
\* that carried the id.
C23_TransferIdUnique ==
  BetweenTransactions =>
    /\ \A j, k \in 1..Len(Chain.events) :
         j # k => Chain.events[j].transferId # Chain.events[k].transferId
    /\ \A k \in 1..Len(Chain.events) :
         Chain.transfers[Chain.events[k].transferId]
           = RecordOf(Chain.events[k])

\* ------------------------------------------------------------------ C24
\* The latest step was a call of getTransfersBatch.
BatchCalled == transferContract.last.op = "getTransfersBatch"

\* C24 (getTransfersBatch): called with offset < transferCounter it returns
\* exactly min(limit, transferCounter - offset) records, of which the k-th
\* (from 0) is transfers[offset + k] and has id offset + k; called with
\* offset >= transferCounter it reverts with 'Offset out of range'.
C24_BatchReturned ==
  BatchCalled =>
    LET offset == transferContract.last.offset
        limit == transferContract.last.limit
        result == transferContract.last.result
    IN  IF offset < Chain.transferCounter
        THEN /\ result.reverted = <<>>
             /\ Len(result.returned)
                  = Min(limit, Chain.transferCounter - offset)
             /\ \A k \in 0..(Len(result.returned) - 1) :
                  /\ result.returned[k + 1] = Chain.transfers[offset + k]
                  /\ result.returned[k + 1].id = offset + k
        ELSE result.reverted = <<"Offset out of range">>

\* ------------------------------------------------------------------ C25
\* The latest step was a revert of transferWithMessage.
Reverted == transferContract.last.op = "reverted"

\* The number of entries of a sequence of events or payments that pay
\* `amount` to `to`.
Paying(entries, to, amount) ==
  Cardinality({ k \in 1..Len(entries) :
                  entries[k].to = to /\ entries[k].amount = amount })

\* C25 (a TransferExecuted event implies a completed payment): between
\* transactions every TransferExecuted event in the log has its own
\* successful payment of `amount` wei to `to`, and transferCounter equals
\* the number of events in the log; a call reaches its payment only with a
\* recipient other than the zero address and a value above 0; and a call
\* that reverts, at a require or because its payment failed, leaves
\* transferCounter, transfers, both indexes and the log as they were when
\* it began.
C25_EventImpliesPayment ==
  /\ BetweenTransactions =>
       /\ Chain.transferCounter = Len(Chain.events)
       /\ \A to \in Addresses, amount \in Values :
            Paying(Chain.events, to, amount)
              = Paying(Chain.payments, to, amount)
  /\ transferContract.last.op \in {"called", "returned"} =>
       /\ transferContract.last.to # ZeroAddress
       /\ transferContract.last.value > 0
  /\ Reverted => Chain = transferContract.last.before

\* A payment has failed and the transaction is over: the log holds the one
\* event of an earlier transaction and nothing of the two calls made since.
C25_Witness ==
  /\ BetweenTransactions
  /\ Reverted
  /\ transferContract.last.reason = <<"Transfer failed">>
  /\ transferContract.started = 3
  /\ Len(Chain.events) = 1

\* ======================================================================
\* The submit forms of the frontend: LogForm, TransferForm,
\* ContractTransferForm, TokenForm (part_003) and SwapFormV3 (part_004).
\* The five components have the same handleSubmit and the same feedback
\* markup; they differ in their inputs, in what they require of them and
\* in SwapFormV3's quote.  The texts of their messages are given here in
\* English.
\* ======================================================================

\* The calls of handleSubmit that pass validation in a behaviour, and the
\* quote requests of SwapFormV3.
MaxSubmissions == 2

MaxQuotes == 2

\* What can be typed into an input.
InputValues(field) == IF field = "ethAmount" THEN {"", "1", "2"} ELSE {"", "1"}

\* The quote shown for an ethAmount: ethers.formatUnits of the amountOut
\* that the quoter returns for it.
QuoteOf(ethAmount) == IF ethAmount = "1" THEN "1800.000000" ELSE "3600.000000"

\* The text that getQuote's catch puts in `quote`; it is the one value of
\* quote that contains the word handleSubmit looks for.
QuoteFailed == "quote failed (maybe not enough liquidity)"

\* parseFloat of a quote that handleSubmit accepts.
parseFloat(quote) == IF quote = "1800.000000" THEN 1800 ELSE 3600

\* ethers.parseUnits((parseFloat(quote) * 0.99).toFixed(6), 6): 99 % of the
\* quote, in units of 10^-6.
amountOutMin(quote) == parseFloat(quote) * 990000

\* The condition under which getQuote gives up before asking: no ethAmount,
\* not a number, not above 0, or no wallet.
noQuote(ethAmount, ethereum) == ethAmount = "" \/ ~ethereum

\* What handleSubmit requires before it sends: the message it sets and
\* returns with, or "" when it goes on.
validate(f) ==
  LET empty(field) == f.fields[field] = ""
  IN  IF f.kind = "LogForm" /\ empty("message")
      THEN "message must not be empty"
      ELSE IF /\ f.kind \in {"TransferForm", "ContractTransferForm",
                              "TokenForm"}
              /\ (empty("to") \/ empty("amount"))
      THEN "address and amount must not be empty"
      ELSE IF /\ f.kind = "SwapFormV3"
              /\ \/ empty("ethAmount") \/ empty("recipient")
                 \/ empty("message")
                 \/ f.quote = "" \/ f.quote = QuoteFailed
      THEN "fill in all fields and get a valid quote"
      ELSE IF ~f.ethereum THEN "please install MetaMask"
      ELSE ""

\* What an awaited call of handleSubmit can throw: an Error of the wallet
\* whose message contains 'rejected', an Error whose message contains none
\* of the words getErrorMessage looks for, and a value that is no Error.
Thrown ==
  { [isError |-> TRUE, message |-> "user rejected action",
     includes |-> {"rejected"}],
    [isError |-> TRUE, message |-> "could not coalesce error",
     includes |-> {}],
    [isError |-> FALSE, message |-> "timeout", includes |-> {}] }

\* getErrorMessage(error) of the four forms, and the expression SwapFormV3
\* has in its place.
getErrorMessage(kind, error) ==
  IF kind = "SwapFormV3"
  THEN IF error.isError THEN error.message ELSE "transaction failed"
  ELSE IF ~error.isError THEN error.message
  ELSE IF error.includes \cap {"rejected", "denied", "ACTION_REJECTED",
                               "User denied"} # {}
  THEN "transaction cancelled"
  ELSE IF "insufficient funds" \in error.includes
  THEN "insufficient balance for gas"
  ELSE IF kind = "TokenForm"
          /\ "transfer amount exceeds balance" \in error.includes
  THEN "insufficient token balance"
  ELSE IF "network" \in error.includes THEN "network error"
  ELSE IF "execution reverted" \in error.includes
  THEN "contract execution failed"
  ELSE error.message

\* The submit button is never disabled.
submitDisabled_never(f) == FALSE

\* The disabled attribute of the submit button.
submitDisabled(f) ==
  f.txStatus = "pending" \/ (f.kind = "SwapFormV3" /\ f.isQuoting)

\* The disabled attribute of the inputs; SwapFormV3's inputs have none.
inputDisabled(f) == f.kind # "SwapFormV3" /\ f.txStatus = "pending"

\* What is rendered of the feedback: the error paragraph, with errorMessage
\* in it, only when txStatus is 'error'.
errorShown(f) == f.txStatus = "error"

\* A sequence without its i-th element.
Without(seq, i) == SubSeq(seq, 1, i - 1) \o SubSeq(seq, i + 1, Len(seq))

\* The user types `value` into the input `field`.  In SwapFormV3 a change
\* of ethAmount makes the effect run again: its cleanup clears the pending
\* timeout and a new one is set, for a getQuote that has the new ethAmount.
SetField(field, value) ==
  /\ field \in DOMAIN form.fields
  /\ ~inputDisabled(form)
  /\ form.fields[field] # value
  /\ form' = [ form EXCEPT
                 !.fields[field] = value,
                 !.debounce = IF field = "ethAmount" THEN <<value>> ELSE @,
                 !.last = [op |-> "edit"] ]
  /\ UNCHANGED <<storeVars, invocation, clientVars, contractVars,
                 walletConnect>>

\* The timeout of the effect fires and getQuote runs up to its await: it
\* clears the quote and returns, or sets isQuoting and asks the quoter.
DebounceFires ==
  /\ form.debounce # <<>>
  /\ LET ethAmount == form.debounce[1]
     IN  IF noQuote(ethAmount, form.ethereum)
         THEN form' = [ form EXCEPT !.quote = "", !.debounce = <<>>,
                                    !.last = [op |-> "quote"] ]
         ELSE /\ form.quoted < MaxQuotes
              /\ form' = [ form EXCEPT
                             !.isQuoting = TRUE,
                             !.requests = Append(@, ethAmount),
                             !.quoted = @ + 1,
                             !.debounce = <<>>,
                             !.last = [op |-> "quote"] ]
  /\ UNCHANGED <<storeVars, invocation, clientVars, contractVars,
                 walletConnect>>

\* The i-th quote request outstanding gets its response, or fails, and its
\* getQuote runs to its end: setQuote, then setIsQuoting(false).
QuoteReturns(i, ok) ==
  /\ i \in 1..Len(form.requests)
  /\ form' = [ form EXCEPT
                 !.quote = IF ok THEN QuoteOf(form.requests[i])
                           ELSE QuoteFailed,
                 !.isQuoting = FALSE,
                 !.requests = Without(@, i),
                 !.last = [op |-> "quote"] ]
  /\ UNCHANGED <<storeVars, invocation, clientVars, contractVars,
                 walletConnect>>

\* The form is submitted: handleSubmit runs up to its first await.  It
\* sets errorMessage and returns when validation fails; otherwise it
\* clears errorMessage, sets txStatus to 'pending' and asks for the signer.
\* The closure keeps the inputs and the quote of the render it was made in.
HandleSubmit ==
  /\ ~submitDisabled(form)
  /\ IF validate(form) # ""
     THEN form' = [ form EXCEPT !.errorMessage = validate(form),
                                !.last = [op |-> "rejected"] ]
     ELSE /\ form.started < MaxSubmissions
          /\ form' = [ form EXCEPT
                         !.errorMessage = "",
                         !.txStatus = "pending",
                         !.runs = Append(@, [ awaits |-> "getSigner",
                                              fields |-> form.fields,
                                              quote |-> form.quote,
                                              hash |-> <<>> ]),
                         !.started = @ + 1,
                         !.last = [op |-> "pending"] ]
  /\ UNCHANGED <<storeVars, invocation, clientVars, contractVars,
                 walletConnect>>

\* What the i-th run of handleSubmit awaits resolves, and the run goes on
\* to its next await or to its end: after getSigner it sends the
\* transaction; after the send it calls setTxHash(tx.hash) and waits for
\* the receipt; after the receipt it sets 'success' and clears the inputs
\* (and the quote, in SwapFormV3).
RunResolves(i) ==
  /\ i \in 1..Len(form.runs)
  /\ LET run == form.runs[i]
     IN  form' =
           CASE run.awaits = "getSigner" ->
                  [ form EXCEPT !.runs[i].awaits = "send",
                                !.last = [op |-> "signer"] ]
             [] run.awaits = "send" ->
                  [ form EXCEPT !.runs[i].awaits = "wait",
                                !.runs[i].hash = <<form.sent + 1>>,
                                !.sent = @ + 1,
                                !.txHash = <<form.sent + 1>>,
                                !.last = [op |-> "sent"] ]
             [] run.awaits = "wait" ->
                  [ form EXCEPT
                      !.txStatus = "success",
                      !.fields = [f \in DOMAIN @ |-> ""],
                      !.quote = IF form.kind = "SwapFormV3" THEN "" ELSE @,
                      !.debounce =
                        IF /\ form.kind = "SwapFormV3"
                           /\ form.fields["ethAmount"] # ""
                        THEN <<"">> ELSE @,
                      !.runs = Without(@, i),
                      !.last = [op |-> "success"] ]
  /\ UNCHANGED <<storeVars, invocation, clientVars, contractVars,
                 walletConnect>>

\* What the i-th run of handleSubmit awaits rejects (or the statement
\* after it throws): the catch sets errorMessage and 'error'.
RunRejects(i, error) ==
  /\ i \in 1..Len(form.runs)
  /\ form' = [ form EXCEPT
                 !.errorMessage = getErrorMessage(form.kind, error),
                 !.txStatus = "error",
                 !.runs = Without(@, i),
                 !.last = [op |-> "error"] ]
  /\ UNCHANGED <<storeVars, invocation, clientVars, contractVars,
                 walletConnect>>

InitForm ==
  /\ EmptyStore
  /\ invocation = NoInvocation
  /\ ClientsIdle
  /\ ContractsDeployed
  /\ walletConnect = WalletMounted(FALSE)
  /\ \E kind \in FormKinds, ethereum \in BOOLEAN :
       form = Mounted(kind, ethereum)

NextForm ==
  \/ \E field \in {"message", "to", "amount", "ethAmount", "recipient"} :
       \E value \in InputValues(field) : SetField(field, value)
  \/ DebounceFires
  \/ \E i \in 1..MaxQuotes, ok \in BOOLEAN : QuoteReturns(i, ok)
  \/ HandleSubmit
  \/ \E i \in 1..MaxSubmissions : RunResolves(i)
  \/ \E i \in 1..MaxSubmissions, error \in Thrown : RunRejects(i, error)

SpecForm == InitForm /\ [][NextForm]_vars

\* ------------------------------------------------------------------ C26
\* No quote request awaits its response and no timeout is pending.
QuotesSettled == form.requests = <<>> /\ form.debounce = <<>>

\* The quotes that can be shown for an ethAmount once getQuote has run for
\* it: none when getQuote gives up, else the quoter's answer or the text
\* of the failure.
QuotesFor(ethAmount) ==
  IF noQuote(ethAmount, form.ethereum) THEN {""}
  ELSE {QuoteOf(ethAmount), QuoteFailed}

\* C26 (the displayed swap quote matches the current input): in SwapFormV3,
\* once every quote request has completed, the quote shown is one computed
\* for the current ethAmount and isQuoting is false, and the amountOutMin
\* of a transaction that handleSubmit has sent is derived from the quote
\* for the ethAmount it sent.
C26_QuoteMatchesInput ==
  form.kind = "SwapFormV3" =>
    /\ QuotesSettled =>
         /\ ~form.isQuoting
         /\ form.quote \in QuotesFor(form.fields["ethAmount"])
    /\ \A i \in 1..Len(form.runs) :
         form.runs[i].awaits = "wait" =>
           amountOutMin(form.runs[i].quote)
             = amountOutMin(QuoteOf(form.runs[i].fields["ethAmount"]))

\* ------------------------------------------------------------------ C28
\* The latest step was a handleSubmit that rejected the submission.
SubmissionRejected == form.last.op = "rejected"

\* C28 (validation errors reach the user): when handleSubmit of LogForm,
\* TransferForm, ContractTransferForm or TokenForm has rejected a
\* submission and set a non-empty errorMessage, the rendered form displays
\* the message.
C28_ValidationErrorShown ==
  /\ form.kind # "SwapFormV3"
  /\ SubmissionRejected
  /\ form.errorMessage # ""
  => errorShown(form)

\* ------------------------------------------------------------------ C29
\* C29 (the hash shown while pending belongs to the current submission):
\* in LogForm, TransferForm, ContractTransferForm and TokenForm, in every
\* state with txStatus 'pending' the txHash is empty or the hash of the
\* transaction sent by the run of handleSubmit in progress.
C29_PendingHashIsCurrent ==
  /\ form.kind # "SwapFormV3"
  /\ form.txStatus = "pending"
  => \/ form.txHash = <<>>
     \/ \E i \in 1..Len(form.runs) : form.txHash = form.runs[i].hash

\* ------------------------------------------------------------------ C30
\* C30 (at most one transaction per form is in flight): at most one run of
\* handleSubmit is in progress, and txStatus is 'pending' exactly while one
\* is; a run ends with 'success' and every input cleared, or with 'error'
\* and an errorMessage; and once a submission has started, txStatus is
\* never 'idle' again.
C30_OneSubmissionInFlight ==
  /\ Len(form.runs) <= 1
  /\ form.txStatus = "pending" <=> form.runs # <<>>
  /\ form.last.op = "success" =>
       /\ form.txStatus = "success"
       /\ \A field \in DOMAIN form.fields : form.fields[field] = ""
  /\ form.last.op = "error" =>
       /\ form.txStatus = "error"
       /\ form.errorMessage # ""
  /\ form.started > 0 => form.txStatus # "idle"

\* Two submissions of a form have started and ended, the second with
\* 'error'; one transaction was sent, and its hash is still in txHash.
C30_Witness ==
  /\ form.started = 2
  /\ form.last.op = "error"
  /\ form.txHash = <<1>>
  /\ form.runs = <<>>

\* ======================================================================
\* WalletConnect (frontend/src/components/WalletConnect.tsx).
\* ======================================================================

\* The calls of updateState made in a behaviour.
MaxUpdates == 3

\* The account of the wallet: accounts[0] of eth_accounts when the wallet
\* has given the site access.
WalletAccount == "0xA11CE"

\* updateState is called, by the effect's chainChanged listener or by
\* connectWallet, and runs up to its first await, of eth_accounts.
updateState(wallet) ==
  [ wallet EXCEPT !.updates = Append(@, [awaits |-> "eth_accounts"]),
                  !.calls = @ + 1 ]

\* handleDisconnect clears what the component shows, and nothing that a
\* later response could look at.
handleDisconnect(wallet) ==
  [ wallet EXCEPT !.userAddress = NoAddress,
                  !.isAccountModalOpen = FALSE,
                  !.disconnected = TRUE ]

\* The wallet emits chainChanged: handleChainChanged calls updateState.
ChainChanged ==
  /\ walletConnect.calls < MaxUpdates
  /\ walletConnect' = updateState(walletConnect)
  /\ UNCHANGED <<storeVars, invocation, clientVars, contractVars, form>>

\* eth_accounts of the i-th updateState in progress returns: with an
\* account, the call goes on to await getNetwork; with none, it resets the
\* state and ends.
AccountsReturn(i) ==
  /\ i \in 1..Len(walletConnect.updates)
  /\ walletConnect.updates[i].awaits = "eth_accounts"
  /\ walletConnect' =
       IF walletConnect.authorised
       THEN [ walletConnect EXCEPT
                !.updates[i] = [ awaits |-> "getNetwork",
                                 address |-> WalletAccount ] ]
       ELSE [ walletConnect EXCEPT
                !.userAddress = NoAddress,
                !.updates = Without(@, i) ]
  /\ UNCHANGED <<storeVars, invocation, clientVars, contractVars, form>>

\* getNetwork of the i-th updateState in progress returns: the call sets
\* userAddress to the address it got and network to the network; what it
\* does after that (the ENS lookups) does not touch userAddress.
NetworkReturns(i) ==
  /\ i \in 1..Len(walletConnect.updates)
  /\ walletConnect.updates[i].awaits = "getNetwork"
  /\ walletConnect' =
       [ walletConnect EXCEPT
           !.userAddress = walletConnect.updates[i].address,
           !.updates = Without(@, i) ]
  /\ UNCHANGED <<storeVars, invocation, clientVars, contractVars, form>>

\* What the i-th updateState in progress awaits rejects: its catch resets
\* the state.
UpdateThrows(i) ==
  /\ i \in 1..Len(walletConnect.updates)
  /\ walletConnect' =
       [ walletConnect EXCEPT !.userAddress = NoAddress,
                              !.updates = Without(@, i) ]
  /\ UNCHANGED <<storeVars, invocation, clientVars, contractVars, form>>

\* The user clicks the connect button, which is rendered while userAddress
\* is null: connectWallet runs up to its await of eth_requestAccounts.
ConnectWallet ==
  /\ walletConnect.userAddress = NoAddress
  /\ ~walletConnect.connecting
  /\ walletConnect' = [ walletConnect EXCEPT !.connecting = TRUE,
                                             !.disconnected = FALSE ]
  /\ UNCHANGED <<storeVars, invocation, clientVars, contractVars, form>>

\* eth_requestAccounts returns: when the user has granted access,
\* connectWallet calls updateState; when the request is rejected, its catch
\* sets errorMessage.
RequestAccountsReturns(granted) ==
  /\ walletConnect.connecting
  /\ IF granted
     THEN /\ walletConnect.calls < MaxUpdates
          /\ walletConnect' =
               updateState([ walletConnect EXCEPT !.connecting = FALSE,
                                                  !.authorised = TRUE ])
     ELSE walletConnect' =
            [ walletConnect EXCEPT !.connecting = FALSE,
                                   !.errorMessage = "connect failed" ]
  /\ UNCHANGED <<storeVars, invocation, clientVars, contractVars, form>>

\* The user clicks 'disconnect' in the account window, which is rendered
\* while userAddress is not null.
HandleDisconnect ==
  /\ walletConnect.userAddress # NoAddress
  /\ walletConnect' = handleDisconnect(walletConnect)
  /\ UNCHANGED <<storeVars, invocation, clientVars, contractVars, form>>

\* The user withdraws the site's access in the wallet.  The component has
\* no accountsChanged listener, so nothing runs.
WalletRevokes ==
  /\ walletConnect.authorised
  /\ walletConnect' = [walletConnect EXCEPT !.authorised = FALSE]
  /\ UNCHANGED <<storeVars, invocation, clientVars, contractVars, form>>

InitWallet ==
  /\ EmptyStore
  /\ invocation = NoInvocation
  /\ ClientsIdle
  /\ ContractsDeployed
  /\ form = Mounted("LogForm", TRUE)
  /\ \E authorised \in BOOLEAN : walletConnect = WalletMounted(authorised)

NextWallet ==
  \/ ChainChanged
  \/ \E i \in 1..MaxUpdates : AccountsReturn(i)
  \/ \E i \in 1..MaxUpdates : NetworkReturns(i)
  \/ \E i \in 1..MaxUpdates : UpdateThrows(i)
  \/ ConnectWallet
  \/ \E granted \in BOOLEAN : RequestAccountsReturns(granted)
  \/ HandleDisconnect
  \/ WalletRevokes

SpecWallet == InitWallet /\ [][NextWallet]_vars

\* ------------------------------------------------------------------ C27
\* C27 (disconnect is durable): from handleDisconnect until the user
\* invokes connectWallet again, userAddress is null; neither chainChanged
\* nor an updateState in progress at the time of the disconnect restores
\* a connected state.
C27_DisconnectDurable ==
  walletConnect.disconnected => walletConnect.userAddress = NoAddress

\* ======================================================================
\* Logs that do not decode (data-storage.ts and the graph node that calls
\* it).
\* ======================================================================

\* The events the manifest names a handler of data-storage.ts for.
KnownSignatures ==
  { "DataWritten(uint256,address,string,uint256)",
    "MemoizedSwap(address,address,string,uint256,uint256)" }

\* The logs that do not decode: a log whose signature is none of the known
\* ones, and a log of a known signature with a parameter that does not
\* decode as its type.
UndecodableLogs ==
  { [signature |-> "Unknown(bytes32)", malformed |-> FALSE] }
    \cup { [signature |-> sig, malformed |-> TRUE] : sig \in KnownSignatures }

\* The fields a handler assigns before it saves its entity, id included.
FieldsOfEntity(type) ==
  CASE type = "DataWrittenEvent" ->
         { "id", "eventId", "from", "message", "timestamp", "blockNumber",
           "transactionHash" }
    [] type = "TransferWithMessageEvent" ->
         { "id", "transferId", "from", "to", "amount", "message",
           "timestamp", "blockNumber", "transactionHash" }
    [] type = "MemoizedSwapEvent" ->
         { "id", "from", "recipient", "message", "amountIn", "amountOut",
           "timestamp", "blockNumber", "transactionHash" }

\* A log fails to decode.  A handler takes a decoded event (its parameter
\* is typed DataWrittenEvent or MemoizedSwapEvent, and it reads
\* event.params), so there is nothing to call it with: no handler runs, and
\* the log is skipped.
DecodeFails(rawLog) ==
  /\ invocation' = [ handler |-> "none", event |-> rawLog, writes |-> 0,
                     result |-> "DecodeError" ]
  /\ UNCHANGED storeVars
  /\ UNCHANGED clientVars
  /\ UNCHANGED otherVars

\* The graph node processes a log: the log decodes and its handler is
\* invoked, with store writes that succeed or fail, or it does not decode.
NextDecode ==
  \/ \E handler \in WriteHandlers : \E event \in EventsOf(handler) :
       InvokeHandler(handler, event)
  \/ \E handler \in WriteHandlers : \E event \in EventsOf(handler) :
       \E failing \in 1..2 : InvokeHandlerFails(handler, event, failing)
  \/ \E rawLog \in UndecodableLogs : DecodeFails(rawLog)

SpecDecode == Init /\ [][NextDecode]_vars

\* ------------------------------------------------------------------ C21
DecodeFailed == invocation.result = "DecodeError"

\* Every entity in the store has all the fields of its type.
EntitiesComplete ==
  \A type \in EntityTypes : \A entity \in TableOfType(type) :
    DOMAIN entity = FieldsOfEntity(type)

\* C21 (decode failure stores nothing): for a log that fails to decode no
\* handler is invoked and the store is left exactly as it was, and in no
\* state does the store hold an entity with only part of its fields.
C21_DecodeFailureStoresNothing ==
  [][ /\ DecodeFailed' =>
           /\ invocation'.handler = "none"
           /\ invocation'.writes = 0
           /\ dataWrittenEvents' = dataWrittenEvents
           /\ transferWithMessageEvents' = transferWithMessageEvents
           /\ memoizedSwapEvents' = memoizedSwapEvents
           /\ log' = log
      /\ EntitiesComplete' ]_vars

\* A log has failed to decode after a MemoizedSwap log was projected: the
\* store holds the one entity, with all its fields.
C21_Witness ==
  /\ DecodeFailed
  /\ invocation.event.malformed
  /\ Cardinality(memoizedSwapEvents) = 1
  /\ Len(log) = 1

====
